---- MODULE Spec2Model ----
(***************************************************************************)
(* A model of the DECAF index engine (nlpnorth/decaf).                     *)
(*                                                                         *)
(* Spec       the shard manager of decaf/index/index.py: DecafIndex with   *)
(*            its connection life cycle (connect, disconnect, the context  *)
(*            manager, connections, add_shard, commit) and the write path  *)
(*            (add, _add_literals, _add_structures, _add_hierarchies).     *)
(*            A shard is an SQLite file; a connection holds the working    *)
(*            copy of its file (the open write transaction) and commit     *)
(*            copies it to the file.                                       *)
(* SpecQuery  the read fan-out of DecafIndex.query_shards / _query_shard.  *)
(***************************************************************************)
EXTENDS Integers, Sequences, FiniteSets, TLC

\* Python's None, encoded as an integer outside every range of ids and of
\* shard indexes (shard -1, the last element of a list, included).
None == -100

\* ------------------------------------------------------------------ bounds
\* The largest number of shard files add_shard creates.
MaxShards == 2
\* The largest number of write calls (add and the _add_* helpers) of a run.
MaxWrites == 2
\* The largest number of rows one shard returns to a query.
MaxRows == 2
\* The largest number of queries handed to query_shards.
MaxQueries == 3
\* The largest number of sentences of an input file.
MaxSentences == 4
\* The largest batch_size handed to get_batches.
MaxBatchSize == 2
\* The largest number of worker processes of the import (--threads).
MaxThreads == 2
\* The largest --shard-size of the import.
MaxShardSize == 2
\* The largest number of tokens of a sentence handed to the parser.
MaxTokens == 3
\* The largest number of sentences of a batch handed to the parser.
MaxParse == 2
\* The largest number of criteria of a Filter.
MaxCriteria == 2
\* The largest number of conditions of a Criterion.
MaxConditions == 2
\* The largest number of ranges or structures one export is asked for.
MaxRequests == 2
\* The largest min_count of a Condition.
MaxMinCount == 2
\* The largest number of substructures of a parent.
MaxChildren == 2
\* The largest mp.cpu_count() and the largest number of shards of the pool.
MaxCpus == 8
MaxPoolShards == 6

\* --------------------------------------------------------------- entities
\* The Literal and Structure objects the caller holds in memory.  An object
\* is named by a string; its id attribute is the model's litId / structId.
Lits == {"l1", "l2"}
Structs == {"s1", "s2"}

\* Structure.literals: the Literal objects a Structure refers to.
StructLiterals(s) == IF s = "s1" THEN <<"l1">> ELSE <<"l1", "l2">>

\* The batches (literals, structures, hierarchies) a caller passes to add.
Batches ==
  { <<<<"l1">>, <<"s1">>, <<>>>>,                          \* a structure and its literal
    <<<<"l1", "l2">>, <<"s1", "s2">>, <<<<"s1", "s2">>>>>>, \* a whole batch
    <<<<"l2">>, <<"s2">>, <<<<"s1", "s2">>>>>>,             \* refers to l1 and s1 of another batch
    <<<<"l1">>, <<"s1">>, <<<<"s1", "s2">>>>>>,             \* a hierarchy to s2, not in the batch
    <<<<"l1">>, <<>>, <<>>>>,                              \* literals only
    <<<<>>, <<"s1">>, <<>>>> }                             \* structures only
LiteralLists == {b[1] : b \in Batches}
StructureLists == {b[2] : b \in Batches}
HierarchyLists == {b[3] : b \in Batches}

\* -------------------------------------------------------------- variables
VARIABLES
  shards,           \* len(self.shards): the shard files are shard-0 .. shard-(n-1)
  disk,             \* disk[s+1]: the committed tables of shard file s
  conns,            \* the open sqlite3 connections: [file, db (working copy)]
  connection,       \* self.connection: None or a position in conns
  connected_shard,  \* self.connected_shard
  litId,            \* Literal.id of every Literal object
  structId,         \* Structure.id of every Structure object
  gen,              \* the connections() generator: <<>> or <<next index, range end>>
  result,           \* "ok" or the exception the last operation raised
  partial,          \* the rows written by add calls that raised
  clean,            \* no write call raised or was handed an object with an id
  writes,           \* the number of write calls so far
  \* query_shards
  qpc,              \* the generator's position
  queries,          \* the queries argument
  nshards,          \* len(self.shards) of the queried index
  tasks,            \* shard_queries: the (query, shard) pairs handed to the pool
  done,             \* done[i]: whether task i has ended, and the rows it returned
  order,            \* the tasks in the order in which they ended
  ran,              \* ran[s+1]: the queries executed on shard s
  fetched,          \* fetched[s+1]: the number of rows fetched from shard s
  out,              \* the (shard_idx, row) pairs handed to the consumer
  qresult,          \* "ok" or the exception query_shards raised
  \* ConlluBatcher.get_batches
  sentences,        \* the sentences parse_incr reads: the metadata fields of each
  bstart,           \* self.start
  bend,             \* self.end
  batch_size,       \* the batch_size argument
  sentence_idx,     \* the index of the next sentence of the for loop
  batch,            \* the batch under construction (sentence indexes)
  in_boundary,      \* the in_boundary flag
  batches,          \* the batches yielded so far
  bpc,              \* the generator's position: "idle", "running" or "done"
  \* the import loop of scripts/import/ud.py
  threads,          \* args.threads
  shard_size,       \* args.shard_size
  batch_iterator,   \* "open", or "None" once StopIteration was caught
  buffered,         \* the list 'batches': the (batch_idx, batch) pairs waiting
  batch_idx,        \* the index of the next batch taken from the iterator
  parsing_jobs,     \* the jobs in the pool: [idx, batch, ready]
  batch_results,    \* the results gathered and not yet added: [idx, sz, res]
  output_idx,       \* the index of the next batch to add
  cursor_idx,       \* the character cursor of the loop
  num_indexed_sentences,
  ishards,          \* len(di.shards)
  iconnected,       \* di.connected_shard
  stored,           \* stored[s+1]: the rows <<sentence, start>> added to shard s
  indexed,          \* the carryover Structures and edges added to the index
  \* ConlluParser.parse
  literal_level,    \* self.literal_level
  force_alignment,  \* self.force_alignment
  sentence_terminator, \* self.sentence_terminator, a sequence of characters
  pcursor,          \* cursor_idx of parse
  pliterals,        \* the Literals of the batch so far
  pstructures,      \* the Structures of the batch so far
  phierarchies,     \* the hierarchy edges <<parent, child>> of the batch so far
  carryover,        \* the carryover fields: field -> <<value, start>>
  carryover_literals,  \* scope -> the Literals accumulated in it
  carryover_sentences, \* scope -> the sentence Structures accumulated in it
  plast,            \* the sentence parsed last, its Literals and its cursor
  pseen,            \* the sentences parsed so far: cursor, metadata and heads of each
  parsed,           \* the number of sentences parsed
  ppc               \* "idle", "running", "done" or "raised"

\* The filter compiler: _construct_filter_query and get_filter_ranges.
VARIABLES
  constraint,       \* the Filter handed to the compiler
  output_level,     \* the output_level argument
  fcall,            \* the operation called: "None", "_construct_filter_query"
                    \* or "get_filter_ranges"
  fpc,              \* "idle", "compiled" (the query was returned), "created"
                    \* (the generator exists and has not run), "querying",
                    \* "done" or "raised"
  filter_query,     \* <<query>> once the query is built, <<>> before
  fsent             \* the queries handed to query_shards, in order

\* The read operations of the index: exports, mask, filter and statistics.
VARIABLES
  corpus,           \* corpus[s+1]: the tables of shard file s, as ingestion left them
  rcall,            \* the read operation called, "None" before
  rargs,            \* its arguments
  rresult,          \* what it returned or raised: [err, value]
  rconnected        \* self.connected_shard when it is over

\* The constraints: the SQL fragments a Criterion renders.
VARIABLES
  crit,             \* the Criterion: its conditions and its operation
  csql,             \* <<>>, or <<what to_sql returned>>
  cprefilter,       \* <<>>, or <<what to_prefilter_sql returned or raised>>
  cgrouped          \* <<>>, or <<what to_grouped_sql returned or raised>>

\* The worker pool of query_shards.
VARIABLES
  cpu_count,        \* mp.cpu_count()
  pool_shards,      \* len(self.shards)
  num_cpus,         \* num_cpus, None before the call
  chunksize         \* chunksize, None before the call

mvars == <<shards, disk, conns, connection, connected_shard, litId, structId,
           gen, result, partial, clean, writes>>
qvars == <<qpc, queries, nshards, tasks, done, order, ran, fetched, out, qresult>>
bvars == <<sentences, bstart, bend, batch_size, sentence_idx, batch, in_boundary,
           batches, bpc>>
\* The variables outside the index: the batcher, the import loop, the parser
\* and the filter compiler.
ivars == <<threads, shard_size, batch_iterator, buffered, batch_idx, parsing_jobs,
           batch_results, output_idx, cursor_idx, num_indexed_sentences, ishards,
           iconnected, stored, indexed>>
pvars == <<literal_level, force_alignment, sentence_terminator, pcursor, pliterals,
           pstructures, phierarchies, carryover, carryover_literals,
           carryover_sentences, plast, pseen, parsed, ppc>>
fvars == <<constraint, output_level, fcall, fpc, filter_query, fsent>>
rvars == <<corpus, rcall, rargs, rresult, rconnected>>
cvars == <<crit, csql, cprefilter, cgrouped>>
kvars == <<cpu_count, pool_shards, num_cpus, chunksize>>
evars == <<bvars, ivars, pvars, fvars, rvars, cvars, kvars>>
vars == <<mvars, qvars, evars>>

\* ----------------------------------------------------------------- tables
\* The tables schema.sql creates in a new shard.
EmptyDb ==
  [literals |-> <<>>, structures |-> <<>>,
   structure_literals |-> <<>>, hierarchical_structures |-> <<>>]

\* The ids stored in a table whose rows are <<id, object>>.
Ids(table) == {table[i][1] : i \in 1..Len(table)}

SetMax(S) == CHOOSE x \in S : \A y \in S : y <= x

\* _get_last_id: SELECT MAX(id), 0 for an empty table.
LastIdSkipsOne(table) == IF Ids(table) = {} THEN 0 ELSE SetMax(Ids(table)) + 1
GetLastId(table) == IF Ids(table) = {} THEN 0 ELSE SetMax(Ids(table))

\* literals.id and structures.id are primary keys: an INSERT of a stored id
\* raises sqlite3.IntegrityError.
PrimaryKeyViolation(table, row) == row[1] \in Ids(table)

\* cursor.executemany of an INSERT into a table with a primary key: the rows
\* go in one by one and the first that violates the key raises; the rows before
\* it stay in the open transaction.
RECURSIVE ExecuteManyKeyed(_, _)
ExecuteManyKeyed(table, rows) ==
  IF rows = <<>> THEN [table |-> table, err |-> "ok"]
  ELSE IF PrimaryKeyViolation(table, Head(rows))
       THEN [table |-> table, err |-> "IntegrityError"]
       ELSE ExecuteManyKeyed(Append(table, Head(rows)), Tail(rows))

\* cursor.executemany of an INSERT into a table without a key.
ExecuteMany(table, rows) == table \o rows

\* ---------------------------------------------------------------- manager
\* The DecafIndex object and the shard files as one record, so that the
\* statements of a method compose: m.err is "ok" until a statement raises.
Manager ==
  [shards |-> shards, disk |-> disk, conns |-> conns, connection |-> connection,
   connected_shard |-> connected_shard, err |-> "ok"]

Raise(m, e) == [m EXCEPT !.err = e]

RemoveAt(s, i) == SubSeq(s, 1, i - 1) \o SubSeq(s, i + 1, Len(s))

\* requires_connection: the wrapped function raises RuntimeError when
\* self.connection is None.
RequiresConnectionOff(c) == FALSE
RequiresConnection(c) == c = None

\* Connection.commit: the working copy of the connection becomes the file.
CommitSkipped(m) == m
CommitFile(m) ==
  [m EXCEPT !.disk[m.conns[m.connection].file + 1] = m.conns[m.connection].db]

\* DecafIndex.commit, wrapped by requires_connection.  Without the wrapper
\* self.connection.commit() on None raises AttributeError.
Commit(m) ==
  IF RequiresConnection(m.connection) THEN Raise(m, "RuntimeError")
  ELSE IF m.connection = None THEN Raise(m, "AttributeError")
  ELSE CommitFile(m)

\* DecafIndex.disconnect.
Disconnect(m) ==
  IF m.connection # None
  THEN LET c == Commit(m) IN
       IF c.err # "ok" THEN c
       ELSE [c EXCEPT !.conns = RemoveAt(c.conns, c.connection),
                      !.connection = None, !.connected_shard = None]
  ELSE m

\* sqlite3.connect(self.shards[shard]): a new connection whose working copy
\* is the file; self.shards[shard] raises IndexError outside the list.
Open(m, shard) ==
  IF shard \notin 0..(m.shards - 1) THEN Raise(m, "IndexError")
  ELSE [m EXCEPT !.conns = Append(m.conns, [file |-> shard, db |-> m.disk[shard + 1]]),
                 !.connection = Len(m.conns) + 1,
                 !.connected_shard = shard]

\* DecafIndex.connect.
Connect(m, shard) ==
  IF m.connected_shard # shard
  THEN LET d == Disconnect(m) IN
       IF d.err # "ok" THEN d ELSE Open(d, shard)
  ELSE m

\* DecafIndex.add_shard: disconnect, append the new file, connect to it, run
\* schema.sql on it and commit.
AddShardOp(m) ==
  LET d == Disconnect(m) IN
  IF d.err # "ok" THEN d
  ELSE LET f == [d EXCEPT !.shards = d.shards + 1, !.disk = Append(d.disk, EmptyDb)]
           c == Connect(f, d.shards)
       IN  IF c.err # "ok" THEN c ELSE Commit(c)

\* export_ranges on the manager, run to its end for ranges in the shards
\* rshards: connect(shard) for every range (the SELECT on the connection is a
\* read), and disconnect after the last range.
RECURSIVE ExportRangesOp(_, _)
ExportRangesOp(m, rshards) ==
  IF m.err # "ok" THEN m
  ELSE IF rshards = <<>> THEN Disconnect(m)
  ELSE ExportRangesOp(Connect(m, Head(rshards)), Tail(rshards))

\* ------------------------------------------------------------- write path
\* The state a write method works on: the manager m and the id attributes of
\* the caller's objects.
Writer == [m |-> Manager, litId |-> litId, structId |-> structId]

Fail(w, e) == [w EXCEPT !.m.err = e]
Db(w) == w.m.conns[w.m.connection].db
WithTable(w, name, table) ==
  [w EXCEPT !.m.conns[w.m.connection].db[name] = table]

\* The loop of _add_literals and of _add_structures over one object: an object
\* without an id gets the next id, an object with an id keeps it.
RECURSIVE AssignIds(_, _, _)
AssignIds(ids, list, next) ==
  IF list = <<>> THEN ids
  ELSE IF ids[Head(list)] # None
       THEN AssignIds(ids, Tail(list), next)
       ELSE AssignIds([ids EXCEPT ![Head(list)] = next], Tail(list), next + 1)

\* [literal.serialize() for literal in literals], [structure.serialize() ...]:
\* one row <<id, object>> per list element, objects with an id included.
Serialize(ids, list) == [i \in 1..Len(list) |-> <<ids[list[i]], list[i]>>]

\* The body of _add_literals.
AddLiterals(w, literals) ==
  LET ids == AssignIds(w.litId, literals, GetLastId(Db(w).literals) + 1)
      ins == ExecuteManyKeyed(Db(w).literals, Serialize(ids, literals))
      x == [WithTable(w, "literals", ins.table) EXCEPT !.litId = ids]
  IN  IF ins.err # "ok" THEN Fail(x, ins.err) ELSE x

\* The assertion of _add_structures: every Literal of the Structure has an id.
LiteralsHaveIds(lids, s) ==
  \A i \in 1..Len(StructLiterals(s)) : lids[StructLiterals(s)[i]] # None

\* The loop of _add_structures: the assertion, the skip of a Structure with an
\* id, the new id and the structure_literals pairs of a Structure without one.
RECURSIVE PrepareStructures(_, _, _, _, _)
PrepareStructures(sids, lids, list, next, pairs) ==
  IF list = <<>> THEN [ids |-> sids, pairs |-> pairs, err |-> "ok"]
  ELSE LET s == Head(list) IN
       IF ~LiteralsHaveIds(lids, s)
       THEN [ids |-> sids, pairs |-> pairs, err |-> "AssertionError"]
       ELSE IF sids[s] # None
       THEN PrepareStructures(sids, lids, Tail(list), next, pairs)
       ELSE PrepareStructures(
              [sids EXCEPT ![s] = next], lids, Tail(list), next + 1,
              pairs \o [i \in 1..Len(StructLiterals(s)) |->
                          <<next, lids[StructLiterals(s)[i]]>>])

\* The body of _add_structures.
AddStructures(w, structures) ==
  LET p == PrepareStructures(w.structId, w.litId, structures,
                             GetLastId(Db(w).structures) + 1, <<>>)
      x == [w EXCEPT !.structId = p.ids]
      ins == ExecuteManyKeyed(Db(w).structures, Serialize(p.ids, structures))
      y == WithTable(x, "structures", ins.table)
  IN  IF p.err # "ok" THEN Fail(x, p.err)
      ELSE IF ins.err # "ok" THEN Fail(y, ins.err)
      ELSE WithTable(y, "structure_literals",
                     ExecuteMany(Db(y).structure_literals, p.pairs))

\* The assertion of _add_hierarchies: parent and child have an id.
HierarchiesHaveIds(sids, hierarchies) ==
  \A i \in 1..Len(hierarchies) :
    sids[hierarchies[i][1]] # None /\ sids[hierarchies[i][2]] # None

\* The body of _add_hierarchies.
AddHierarchies(w, hierarchies) ==
  IF ~HierarchiesHaveIds(w.structId, hierarchies) THEN Fail(w, "AssertionError")
  ELSE WithTable(w, "hierarchical_structures",
         ExecuteMany(Db(w).hierarchical_structures,
           [i \in 1..Len(hierarchies) |->
              <<w.structId[hierarchies[i][1]], w.structId[hierarchies[i][2]]>>]))

\* requires_connection around a write method.  Without the wrapper the first
\* statement, self.connection.cursor() on None, raises AttributeError.
Guarded(w) ==
  IF RequiresConnection(w.m.connection) THEN "RuntimeError"
  ELSE IF w.m.connection = None THEN "AttributeError"
  ELSE "ok"

\* _add_literals, _add_structures, _add_hierarchies as decorated.
AddLiteralsCall(w, literals) ==
  IF Guarded(w) # "ok" THEN Fail(w, Guarded(w)) ELSE AddLiterals(w, literals)
AddStructuresCall(w, structures) ==
  IF Guarded(w) # "ok" THEN Fail(w, Guarded(w)) ELSE AddStructures(w, structures)
AddHierarchiesCall(w, hierarchies) ==
  IF Guarded(w) # "ok" THEN Fail(w, Guarded(w)) ELSE AddHierarchies(w, hierarchies)

\* The shard DecafIndex.add connects to when no connection is active.
AddTarget(n) == n - 1

\* DecafIndex.add.
AddOp(w, literals, structures, hierarchies) ==
  LET c == IF w.m.connection = None
           THEN [w EXCEPT !.m = Connect(w.m, AddTarget(w.m.shards))]
           ELSE w
      a == AddLiteralsCall(c, literals)
      b == AddStructuresCall(a, structures)
      h == AddHierarchiesCall(b, hierarchies)
  IN  IF c.m.err # "ok" THEN c
      ELSE IF a.m.err # "ok" THEN a
      ELSE IF b.m.err # "ok" THEN b
      ELSE h

\* ---------------------------------------------------------------- actions
\* The tables of shard s as the next statement on the manager's connection
\* sees them: the working copy when s is the connected shard, else the file.
View(s) ==
  IF connection # None /\ conns[connection].file = s
  THEN conns[connection].db ELSE disk[s + 1]

Range(seq) == {seq[i] : i \in 1..Len(seq)}

\* The rows of the keyed tables of a shard, tagged with shard and table.
KeyedRows(s, db) ==
  {<<s, "literals", r>> : r \in Range(db.literals)}
    \cup {<<s, "structures", r>> : r \in Range(db.structures)}

\* The manager's fields and the outcome after a method that ended in m.
SetManager(m) ==
  /\ shards' = m.shards
  /\ disk' = m.disk
  /\ conns' = m.conns
  /\ connection' = m.connection
  /\ connected_shard' = m.connected_shard
  /\ result' = m.err

InitManager ==
  /\ shards = 0
  /\ disk = <<>>
  /\ conns = <<>>
  /\ connection = None
  /\ connected_shard = None
  /\ litId = [l \in Lits |-> None]
  /\ structId = [s \in Structs |-> None]
  /\ gen = <<>>
  /\ result = "ok"
  /\ partial = {}
  /\ clean = TRUE
  /\ writes = 0

\* No batcher is at work.
InitBatcherIdle ==
  /\ sentences = <<>>
  /\ bstart = 0
  /\ bend = 0
  /\ batch_size = 1
  /\ sentence_idx = 0
  /\ batch = <<>>
  /\ in_boundary = FALSE
  /\ batches = <<>>
  /\ bpc = "idle"

\* No import is running.
InitIngestIdle ==
  /\ threads = 1
  /\ shard_size = 1
  /\ batch_iterator = "None"
  /\ buffered = <<>>
  /\ batch_idx = 0
  /\ parsing_jobs = <<>>
  /\ batch_results = {}
  /\ output_idx = 0
  /\ cursor_idx = 0
  /\ num_indexed_sentences = 0
  /\ ishards = 0
  /\ iconnected = None
  /\ stored = <<>>
  /\ indexed = [structures |-> <<>>, hierarchies |-> <<>>]

\* query_shards has not sized its pool.
InitPoolIdle ==
  /\ cpu_count = 1
  /\ pool_shards = 0
  /\ num_cpus = None
  /\ chunksize = None

\* No Criterion is being rendered.
InitConstraintsIdle ==
  /\ crit = [conditions |-> <<>>, operation |-> ""]
  /\ csql = <<>>
  /\ cprefilter = <<>>
  /\ cgrouped = <<>>

\* No read operation has been called; the index holds no shard.
InitReadIdle ==
  /\ corpus = <<>>
  /\ rcall = "None"
  /\ rargs = <<>>
  /\ rresult = <<>>
  /\ rconnected = None

\* No filter is being compiled.
InitFilterIdle ==
  /\ constraint = [criteria |-> <<>>, sequential |-> FALSE, hierarchy |-> {}]
  /\ output_level = "structures"
  /\ fcall = "None"
  /\ fpc = "idle"
  /\ filter_query = <<>>
  /\ fsent = <<>>

\* No parser is at work.
InitParserIdle ==
  /\ literal_level = "token"
  /\ force_alignment = FALSE
  /\ sentence_terminator = <<>>
  /\ pcursor = 0
  /\ pliterals = <<>>
  /\ pstructures = <<>>
  /\ phierarchies = <<>>
  /\ carryover = <<>>
  /\ carryover_literals = <<>>
  /\ carryover_sentences = <<>>
  /\ plast = <<>>
  /\ pseen = <<>>
  /\ parsed = 0
  /\ ppc = "idle"

InitQueryIdle ==
  /\ qpc = "idle"
  /\ queries = <<>>
  /\ nshards = 0
  /\ tasks = <<>>
  /\ done = <<>>
  /\ order = <<>>
  /\ ran = <<>>
  /\ fetched = <<>>
  /\ out = <<>>
  /\ qresult = "ok"

\* A method that touches neither the caller's objects nor the write history.
ManagerCall(m) ==
  /\ SetManager(m)
  /\ UNCHANGED <<litId, structId, gen, partial, clean, writes, qvars, evars>>

\* index.connect(shard), an index outside the list included.
DoConnect ==
  \E shard \in 0..MaxShards : ManagerCall(Connect(Manager, shard))

DoDisconnect == ManagerCall(Disconnect(Manager))

\* with index: ... enters with connect() on the default shard 0 and leaves
\* with disconnect().
Enter == ManagerCall(Connect(Manager, 0))
Exit == ManagerCall(Disconnect(Manager))

DoAddShard ==
  /\ shards < MaxShards
  /\ ManagerCall(AddShardOp(Manager))

\* initialize: add_shard on an index without a shard.
Initialize ==
  /\ shards < 1
  /\ ManagerCall(AddShardOp(Manager))

DoCommit == ManagerCall(Commit(Manager))

\* _get_last_id called from outside: a read, guarded by requires_connection.
DoGetLastId ==
  ManagerCall(IF Guarded(Writer) # "ok" THEN Raise(Manager, Guarded(Writer)) ELSE Manager)

\* The write history after a write call with the given objects that ended in w:
\* the call raised or an object it was handed had an id already.
WriteHistory(w, literals, structures) ==
  /\ writes' = writes + 1
  /\ clean' = (/\ clean
               /\ w.m.err = "ok"
               /\ \A l \in Range(literals) : litId[l] = None
               /\ \A s \in Range(structures) : structId[s] = None)

WriteCall(w) ==
  /\ SetManager(w.m)
  /\ litId' = w.litId
  /\ structId' = w.structId
  /\ UNCHANGED <<gen, qvars, evars>>

\* index.add(literals, structures, hierarchies).
AddCall(literals, structures, hierarchies) ==
  LET w == AddOp(Writer, literals, structures, hierarchies) IN
  /\ WriteCall(w)
  /\ WriteHistory(w, literals, structures)
  /\ partial' =
       IF w.m.err # "ok" /\ w.m.connection # None
       THEN partial \cup (KeyedRows(w.m.connected_shard, Db(w))
                            \ KeyedRows(w.m.connected_shard, View(w.m.connected_shard)))
       ELSE partial

DoAdd ==
  /\ writes < MaxWrites
  /\ \E b \in Batches : AddCall(b[1], b[2], b[3])

\* The decorated helpers called from outside add.
DoAddLiterals ==
  /\ writes < MaxWrites
  /\ \E literals \in LiteralLists :
       LET w == AddLiteralsCall(Writer, literals) IN
       /\ WriteCall(w)
       /\ WriteHistory(w, literals, <<>>)
            /\ UNCHANGED partial

DoAddStructures ==
  /\ writes < MaxWrites
  /\ \E structures \in StructureLists :
       LET w == AddStructuresCall(Writer, structures) IN
       /\ WriteCall(w)
       /\ WriteHistory(w, <<>>, structures)
            /\ UNCHANGED partial

DoAddHierarchies ==
  /\ writes < MaxWrites
  /\ \E hierarchies \in HierarchyLists :
       LET w == AddHierarchiesCall(Writer, hierarchies) IN
       /\ WriteCall(w)
       /\ WriteHistory(w, <<>>, <<>>)
            /\ UNCHANGED partial

\* index.connections(): calling it creates the generator and runs nothing.
ConnectionsCall ==
  /\ gen = <<>>
  /\ gen' = <<None, None>>
  /\ result' = "ok"
  /\ UNCHANGED <<shards, disk, conns, connection, connected_shard, litId, structId,
                 partial, clean, writes, qvars, evars>>

\* next() on the generator: range(len(self.shards)) is taken at the first
\* next(); each round disconnects and yields connect(shard_idx); after the
\* last shard the generator disconnects and ends.
ConnectionsNext ==
  /\ gen # <<>>
  /\ LET i == IF gen[1] = None THEN 0 ELSE gen[1]
         n == IF gen[1] = None THEN shards ELSE gen[2]
         m == IF i < n THEN Connect(Disconnect(Manager), i) ELSE Disconnect(Manager)
     IN  /\ SetManager(IF i < n \/ m.err # "ok" THEN m ELSE Raise(m, "StopIteration"))
         /\ gen' = IF i < n /\ m.err = "ok" THEN <<i + 1, n>> ELSE <<>>
  /\ UNCHANGED <<litId, structId, partial, clean, writes, qvars, evars>>

\* The caller leaves the loop over connections() early: the generator is
\* closed at its yield and the connection it made stays.
ConnectionsClose ==
  /\ gen # <<>>
  /\ gen' = <<>>
  /\ result' = "ok"
  /\ UNCHANGED <<shards, disk, conns, connection, connected_shard, litId, structId,
                 partial, clean, writes, qvars, evars>>

\* list(index.export_ranges(ranges)): the generator is consumed.
RangeShards == UNION {[1..n -> 0..(MaxShards - 1)] : n \in 0..MaxRequests}
DoExportRanges ==
  \E rshards \in RangeShards : ManagerCall(ExportRangesOp(Manager, rshards))

NextManager ==
  \/ DoExportRanges
  \/ DoConnect \/ DoDisconnect \/ Enter \/ Exit
  \/ DoAddShard \/ Initialize \/ DoCommit \/ DoGetLastId
  \/ DoAdd \/ DoAddLiterals \/ DoAddStructures \/ DoAddHierarchies
  \/ ConnectionsCall \/ ConnectionsNext \/ ConnectionsClose

Init == InitManager /\ InitQueryIdle /\ InitBatcherIdle /\ InitIngestIdle /\ InitParserIdle /\ InitFilterIdle /\ InitReadIdle /\ InitConstraintsIdle /\ InitPoolIdle
Next == NextManager
Spec == Init /\ [][Next]_vars

\* ----------------------------------------------------------- query_shards
\* The queries a caller passes, named by numbers.
QueryIds == {1, 2}
QueryLists == UNION {[1..k -> QueryIds] : k \in 0..MaxQueries}

\* The rows a shard holds for a query, in the order the query returns them.  A
\* row is <<query, shard, position>>, so it tells the shard it comes from.
RowCount(q, s) == (q + s) % (MaxRows + 1)
ShardRows(q, s) == [j \in 1..RowCount(q, s) |-> <<q, s, j>>]

\* cursor.fetchall() in _query_shard: every row of the result.
FetchOne(rows) == IF rows = <<>> THEN <<>> ELSE <<rows[1]>>
FetchAll(rows) == rows

\* shard_queries of query_shards: one query for every shard, one query per
\* shard, or ValueError.  A task is <<query, shard index>>.
ShardQueriesUnchecked(qs, n) ==
  IF Len(qs) = 1
  THEN [err |-> "ok", tasks |-> [i \in 1..n |-> <<qs[1], i - 1>>]]
  ELSE [err |-> "ok",
        tasks |-> [i \in 1..(IF Len(qs) < n THEN Len(qs) ELSE n) |-> <<qs[i], i - 1>>]]
ShardQueries(qs, n) ==
  IF Len(qs) = 1
  THEN [err |-> "ok", tasks |-> [i \in 1..n |-> <<qs[1], i - 1>>]]
  ELSE IF Len(qs) # n
  THEN [err |-> "ValueError", tasks |-> <<>>]
  ELSE [err |-> "ok", tasks |-> [i \in 1..n |-> <<qs[i], i - 1>>]]

\* pool.starmap: the results of the tasks in the order of the tasks, whatever
\* the order in which the workers ended.
StarmapUnordered(d, o) == [i \in 1..Len(d) |-> d[o[i]].rows]
Starmap(d, o) == [i \in 1..Len(d) |-> d[i].rows]

\* The two loops of query_shards: enumerate over the results, then the rows
\* of one result; every row goes out with the index of its result.
RECURSIVE Enumerate(_, _)
Enumerate(results, idx) ==
  IF results = <<>> THEN <<>>
  ELSE [j \in 1..Len(Head(results)) |-> <<idx, Head(results)[j]>>]
         \o Enumerate(Tail(results), idx + 1)

\* All pairs the generator yields once starmap has returned.
Yields == Enumerate(Starmap(done, order), 0)

\* The index is built on a directory that holds any number of shards.
InitQuery ==
  /\ InitManager
  /\ qpc = "idle"
  /\ queries = <<>>
  /\ nshards \in 0..MaxShards
  /\ tasks = <<>>
  /\ done = <<>>
  /\ order = <<>>
  /\ ran = [s \in 1..nshards |-> <<>>]
  /\ fetched = [s \in 1..nshards |-> 0]
  /\ out = <<>>
  /\ qresult = "ok"
  /\ InitBatcherIdle /\ InitIngestIdle /\ InitParserIdle /\ InitFilterIdle /\ InitReadIdle /\ InitConstraintsIdle /\ InitPoolIdle

\* index.query_shards(queries): the call makes the generator and runs nothing.
QueryShardsCall ==
  /\ qpc = "idle"
  /\ \E qs \in QueryLists : queries' = qs
  /\ qpc' = "created"
  /\ UNCHANGED <<nshards, tasks, done, order, ran, fetched, out, qresult, mvars, evars>>

\* The first next(): the queries are paired with the shards, or ValueError is
\* raised; the pairs go to the pool and the generator waits in starmap.
QueryFirstNext ==
  /\ qpc = "created"
  /\ LET sq == ShardQueries(queries, nshards) IN
     /\ qresult' = sq.err
     /\ qpc' = IF sq.err = "ok" THEN "starmap" ELSE "raised"
     /\ tasks' = sq.tasks
     /\ done' = [i \in 1..Len(sq.tasks) |-> [ready |-> FALSE, rows |-> <<>>]]
  /\ UNCHANGED <<queries, nshards, order, ran, fetched, out, mvars, evars>>

\* A pool worker runs _query_shard on a task: it executes the query on the
\* shard and fetches the rows.  The tasks end in any order.
WorkerRun ==
  /\ qpc = "starmap"
  /\ \E i \in 1..Len(tasks) :
       /\ ~done[i].ready
       /\ LET q == tasks[i][1]
              s == tasks[i][2]
              rows == FetchAll(ShardRows(q, s))
          IN  /\ ran' = [ran EXCEPT ![s + 1] = Append(@, q)]
              /\ fetched' = [fetched EXCEPT ![s + 1] = @ + Len(rows)]
              /\ done' = [done EXCEPT ![i] = [ready |-> TRUE, rows |-> rows]]
       /\ order' = Append(order, i)
  /\ UNCHANGED <<qpc, queries, nshards, tasks, out, qresult, mvars, evars>>

\* starmap returns when every task has ended; the first next() then yields the
\* first pair, or ends the generator when no shard returned a row.
StarmapReturn ==
  /\ qpc = "starmap"
  /\ \A i \in 1..Len(tasks) : done[i].ready
  /\ IF Yields # <<>>
     THEN out' = <<Yields[1]>> /\ qpc' = "yielded" /\ qresult' = "ok"
     ELSE out' = out /\ qpc' = "exhausted" /\ qresult' = "StopIteration"
  /\ UNCHANGED <<queries, nshards, tasks, done, order, ran, fetched, mvars, evars>>

\* A later next(): the next pair, or the end of the generator.
QueryNext ==
  /\ qpc = "yielded"
  /\ IF Len(out) < Len(Yields)
     THEN out' = Append(out, Yields[Len(out) + 1]) /\ qpc' = qpc /\ qresult' = "ok"
     ELSE out' = out /\ qpc' = "exhausted" /\ qresult' = "StopIteration"
  /\ UNCHANGED <<queries, nshards, tasks, done, order, ran, fetched, mvars, evars>>

\* The consumer drops the iterator, before the first next() or between two:
\* the generator is closed at its yield and the pool is terminated.
QueryDrop ==
  /\ qpc \in {"created", "yielded"}
  /\ qpc' = "closed"
  /\ UNCHANGED <<queries, nshards, tasks, done, order, ran, fetched, out, qresult, mvars, evars>>

NextQuery ==
  \/ QueryShardsCall \/ QueryFirstNext \/ WorkerRun
  \/ StarmapReturn \/ QueryNext \/ QueryDrop

SpecQuery == InitQuery /\ [][NextQuery]_vars

\* ----------------------------------------------------------------- claims
\* The shard add writes to from the current state: the connected shard, or the
\* one add connects to.
WriteShard == IF connection # None THEN connected_shard ELSE AddTarget(shards)

\* The object has an id and its row is stored in shard s.
PersistedLiteral(l, s) ==
  litId[l] # None /\ <<litId[l], l>> \in Range(View(s).literals)
PersistedStructure(x, s) ==
  structId[x] # None /\ <<structId[x], x>> \in Range(View(s).structures)

\* The number of rows of a table that satisfy a test.
RowsOf(table, obj) == Cardinality({i \in 1..Len(table) : table[i][2] = obj})
PairsOf(table, id) == Cardinality({i \in 1..Len(table) : table[i][1] = id})

\* C1 (as claimed): no row written by an add call that raised is stored in a
\* shard file, where every later read finds it.
C1_FailedAddLeavesNoRow ==
  \A row \in partial : row[3] \notin Range(disk[row[1] + 1][row[2]])

\* C2 (as claimed): an add that is handed a Literal or Structure persisted
\* on the shard it writes to succeeds, and the shard holds as many rows of that
\* object afterwards as before.
C2_ReaddIsNoOp ==
  [][\A b \in Batches :
       (/\ AddCall(b[1], b[2], b[3])
        /\ shards > 0
        /\ \/ \E l \in Range(b[1]) : PersistedLiteral(l, WriteShard)
           \/ \E x \in Range(b[2]) : PersistedStructure(x, WriteShard))
       => /\ result' = "ok"
          /\ \A l \in Range(b[1]) :
               PersistedLiteral(l, WriteShard) =>
                 RowsOf(View(WriteShard)'.literals, l) = RowsOf(View(WriteShard).literals, l)
          /\ \A x \in Range(b[2]) :
               PersistedStructure(x, WriteShard) =>
                 /\ RowsOf(View(WriteShard)'.structures, x)
                      = RowsOf(View(WriteShard).structures, x)
                 /\ PairsOf(View(WriteShard)'.structure_literals, structId[x])
                      = PairsOf(View(WriteShard).structure_literals, structId[x])]_vars

\* C3: as long as every write call succeeded and was handed objects without an
\* id, the i-th row inserted into literals and into structures of every shard
\* has id i: the ids are 1..n in insertion order.
DenseIds(table) == \A i \in 1..Len(table) : table[i][1] = i
C3_IdsDenseAndIncreasing ==
  clean =>
    \A s \in 0..(shards - 1) :
      /\ DenseIds(View(s).literals) /\ DenseIds(View(s).structures)
      /\ DenseIds(disk[s + 1].literals) /\ DenseIds(disk[s + 1].structures)
C3_Witness ==
  /\ clean /\ writes = 2
  /\ \E s \in 0..(shards - 1) :
       Len(View(s).literals) = 2 /\ Len(View(s).structures) = 2

\* C4 (as claimed): every structure_literals row of a shard refers to a
\* structure row and a literal row of that shard, and every
\* hierarchical_structures row to two structure rows of that shard.
References(db) ==
  /\ \A p \in Range(db.structure_literals) :
       p[1] \in Ids(db.structures) /\ p[2] \in Ids(db.literals)
  /\ \A p \in Range(db.hierarchical_structures) :
       p[1] \in Ids(db.structures) /\ p[2] \in Ids(db.structures)
C4_ReferencesResolve ==
  \A s \in 0..(shards - 1) : References(View(s)) /\ References(disk[s + 1])

\* C5 (as claimed): an add call changes the tables of no shard but the newest.
C5_AddWritesNewestShard ==
  [][\A b \in Batches :
       AddCall(b[1], b[2], b[3]) =>
         \A s \in 0..(shards - 1) : View(s)' # View(s) => s = shards - 1]_vars

\* C6: the manager holds at most one open connection, connection is None
\* exactly when connected_shard is None, and a step that leaves the connected
\* shard has stored the pending writes of its connection in the shard file.
C6_OneConnection ==
  /\ Len(conns) <= 1
  /\ (connection = None) <=> (connected_shard = None)
C6_ConnectionLifecycle ==
  /\ []C6_OneConnection
  /\ [][(connection # None /\ connected_shard' # connected_shard)
          => disk'[connected_shard + 1] = conns[connection].db]_vars
C6_Witness ==
  /\ connected_shard = 1
  /\ disk[1].literals # <<>>
  /\ Len(conns) = 1

\* C7: with no active connection commit, _get_last_id, _add_literals,
\* _add_structures and _add_hierarchies raise the RuntimeError of
\* requires_connection and change neither the manager, the shards nor the
\* caller's objects; disconnect (and leaving the with block) does not raise.
NothingChanged ==
  UNCHANGED <<shards, disk, conns, connection, connected_shard, litId, structId>>
C7_RequiresConnection ==
  /\ [][(/\ connection = None
          /\ (DoCommit \/ DoGetLastId \/ DoAddLiterals \/ DoAddStructures
                \/ DoAddHierarchies))
          => (result' = "RuntimeError" /\ NothingChanged)]_vars
  /\ [][(connection = None /\ (DoDisconnect \/ Exit))
          => (result' = "ok" /\ NothingChanged)]_vars
C7_Witness == connection = None /\ result = "RuntimeError" /\ shards > 0

\* The query that runs on shard s, given the queries argument.
QueryOf(s) == IF Len(queries) = 1 THEN queries[1] ELSE queries[s + 1]

\* The rows of shard s among the pairs handed out, in the order handed out.
RECURSIVE HandedOut(_, _)
HandedOut(pairs, s) ==
  IF pairs = <<>> THEN <<>>
  ELSE (IF Head(pairs)[1] = s THEN <<Head(pairs)[2]>> ELSE <<>>)
         \o HandedOut(Tail(pairs), s)

\* C8: once starmap has returned, one query has run on every shard, the single
\* query or the query of the shard's position; with a number of queries that
\* is neither 1 nor the number of shards the first next() raises ValueError and
\* no query ever runs on a shard.
C8_QueryMapping ==
  /\ (qpc \in {"yielded", "exhausted"} \/ out # <<>>) =>
       /\ Len(queries) = 1 \/ Len(queries) = nshards
       /\ \A s \in 0..(nshards - 1) : ran[s + 1] = <<QueryOf(s)>>
  /\ (Len(queries) # 1 /\ Len(queries) # nshards) =>
       /\ \A s \in 0..(nshards - 1) : ran[s + 1] = <<>>
       /\ qpc \notin {"idle", "created", "closed"} =>
            qpc = "raised" /\ qresult = "ValueError"
C8_Witness ==
  /\ qpc = "exhausted" /\ nshards = 2 /\ Len(queries) = 2
  /\ queries[1] # queries[2]
  /\ ran = <<<<queries[1]>>, <<queries[2]>>>>

\* C9: every pair handed out carries the index of the shard its row comes from,
\* and the rows handed out for one shard are the first rows of that shard's
\* query result, in the order of the result.
C9_ShardIndexAndOrder ==
  /\ \A p \in 1..Len(out) : out[p][2][2] = out[p][1]
  /\ \A s \in 0..(nshards - 1) :
       LET h == HandedOut(out, s) IN
       h # <<>> =>
         /\ Len(h) <= RowCount(QueryOf(s), s)
         /\ h = SubSeq(ShardRows(QueryOf(s), s), 1, Len(h))
C9_Witness ==
  /\ nshards = 2 /\ order = <<2, 1>>
  /\ Len(HandedOut(out, 0)) >= 1 /\ Len(HandedOut(out, 1)) >= 2

C40_ReadsKeepConnection ==
  [][/\ \A rshards \in RangeShards :
          (connection # None /\ ManagerCall(ExportRangesOp(Manager, rshards))
             /\ result' = "ok")
            => (connection' # None /\ connected_shard' = connected_shard)
     /\ (connection # None /\ ConnectionsNext /\ gen' = <<>> /\ result' = "StopIteration")
            => (connection' # None /\ connected_shard' = connected_shard)]_vars

\* ------------------------------------------------------- reads after writes
\* _query_shard opens a connection of its own on the shard file: its SELECT
\* sees the committed tables of the file, not the open transaction of
\* self.connection.
QueryShard(s) == disk[s + 1]

\* get_size: the three COUNT queries, broadcast and summed over the shards.
RECURSIVE SumCounts(_, _)
SumCounts(table, n) ==
  IF n = 0 THEN 0 ELSE Len(QueryShard(n - 1)[table]) + SumCounts(table, n - 1)
GetSize ==
  <<SumCounts("literals", shards), SumCounts("structures", shards),
    SumCounts("hierarchical_structures", shards)>>

\* The rows written so far, through whichever connection.
RECURSIVE SumWritten(_, _)
SumWritten(table, n) ==
  IF n = 0 THEN 0 ELSE Len(View(n - 1)[table]) + SumWritten(table, n - 1)
WrittenSize ==
  <<SumWritten("literals", shards), SumWritten("structures", shards),
    SumWritten("hierarchical_structures", shards)>>

\* C11: a read through query_shards (here get_size) issued after add has
\* returned reflects all rows written by that add and by every earlier one,
\* also without a commit, disconnect or add_shard in between.
C11_ReadReflectsWrites ==
  [][\A b \in Batches :
       (AddCall(b[1], b[2], b[3]) /\ result' = "ok") => GetSize' = WrittenSize']_vars

\* ---------------------------------------------------------- ConlluBatcher
\* A sentence of the input is the set of its metadata fields.
MetadataSets == {{}, {"newdoc"}, {"newdoc id"}}
Streams == UNION {[1..n -> MetadataSets] : n \in 0..MaxSentences}

\* get_boundary: 'document' (true) for a sentence with a newdoc field.
GetBoundary(sentence) == \E field \in {"newdoc", "newdoc id"} : field \in sentence

\* The window test of get_batches: a sentence outside [start, end] is skipped.
InWindowOpenEnd(idx, s, e) == ~((idx < s) \/ (idx >= e))
InWindow(idx, s, e) == ~((idx < s) \/ (idx > e))

\* in_boundary after the size check of a sentence: set, never reset, when a
\* full batch meets a sentence that opens a document.
InBoundary(b, inb, sentence, size) ==
  inb \/ (Len(b) >= size /\ GetBoundary(sentence))

\* batch_complete: the batch is full and either the sentence opens a document
\* or no document boundary has been met by a full batch so far.
BatchComplete(b, inb, sentence, size) ==
  /\ Len(b) >= size
  /\ \/ (GetBoundary(sentence) /\ Len(b) > 0)
     \/ ~InBoundary(b, inb, sentence, size)

\* One round of the for loop on the generator state g = [batch, in_boundary,
\* batches]: the sentence is skipped, or the batch is yielded when complete
\* and the sentence appended.
BatcherRound(g, idx, sentence, s, e, size) ==
  IF ~InWindow(idx, s, e) THEN g
  ELSE LET complete == BatchComplete(g.batch, g.in_boundary, sentence, size) IN
       [batch |-> Append(IF complete THEN <<>> ELSE g.batch, idx),
        in_boundary |-> InBoundary(g.batch, g.in_boundary, sentence, size),
        batches |-> IF complete THEN Append(g.batches, g.batch) ELSE g.batches]

\* with ConlluBatcher(file, start, end) as batcher: batcher.get_batches(batch_size)
InitBatcher ==
  /\ sentences \in Streams
  /\ bstart \in 0..(MaxSentences - 2)
  /\ bend \in 0..MaxSentences
  /\ batch_size \in 1..MaxBatchSize
  /\ sentence_idx = 0
  /\ batch = <<>>
  /\ in_boundary = FALSE
  /\ batches = <<>>
  /\ bpc = "running"

\* The generator takes the next sentence of the file.
BatcherNext ==
  /\ bpc = "running"
  /\ sentence_idx < Len(sentences)
  /\ LET g == BatcherRound([batch |-> batch, in_boundary |-> in_boundary,
                            batches |-> batches],
                           sentence_idx, sentences[sentence_idx + 1],
                           bstart, bend, batch_size)
     IN  /\ batch' = g.batch
         /\ in_boundary' = g.in_boundary
         /\ batches' = g.batches
  /\ sentence_idx' = sentence_idx + 1
  /\ UNCHANGED <<sentences, bstart, bend, batch_size, bpc, mvars, qvars, ivars, pvars, fvars, rvars, cvars, kvars>>

\* The file is at its end: the final batch is yielded, empty or not.
BatcherEnd ==
  /\ bpc = "running"
  /\ sentence_idx = Len(sentences)
  /\ batches' = Append(batches, batch)
  /\ bpc' = "done"
  /\ UNCHANGED <<sentences, bstart, bend, batch_size, sentence_idx, batch, in_boundary,
                 mvars, qvars, ivars, pvars, fvars, rvars, cvars, kvars>>

NextBatcher == BatcherNext \/ BatcherEnd

\* The initial states of SpecBatcher: the other parts are idle.
InitBatcherOnly ==
  /\ InitManager /\ InitQueryIdle /\ InitBatcher /\ InitIngestIdle /\ InitParserIdle /\ InitFilterIdle /\ InitReadIdle /\ InitConstraintsIdle /\ InitPoolIdle
SpecBatcher == InitBatcherOnly /\ [][NextBatcher]_vars

RECURSIVE Concat(_)
Concat(seqs) == IF seqs = <<>> THEN <<>> ELSE Head(seqs) \o Concat(Tail(seqs))

\* The indexes of the sentences inside the window, in input order.
RECURSIVE WindowFrom(_)
WindowFrom(idx) ==
  IF idx >= Len(sentences) THEN <<>>
  ELSE (IF bstart <= idx /\ idx <= bend THEN <<idx>> ELSE <<>>) \o WindowFrom(idx + 1)

\* Every document of the stream starts with a newdoc marker and the window is
\* the whole file.
DocumentStream ==
  /\ bstart = 0 /\ bend >= Len(sentences)
  /\ sentences # <<>> => GetBoundary(sentences[1])

\* C17: on a stream whose documents all start with a newdoc marker, every
\* batch get_batches yields starts with a sentence that opens a document.
C17_BatchNeverCutsDocument ==
  DocumentStream =>
    \A i \in 1..Len(batches) :
      batches[i] # <<>> => GetBoundary(sentences[Head(batches[i]) + 1])

\* C18: the batches yielded, concatenated, are the sentences of the window
\* [start, end], both ends included, each once and in input order.
C18_BatchesAreTheWindow ==
  bpc = "done" => Concat(batches) = WindowFrom(0)
C18_Witness ==
  /\ bpc = "done" /\ Len(batches) >= 2
  /\ bstart = 1 /\ bend = 2 /\ Len(sentences) = 4
  /\ Concat(batches) = <<1, 2>>

\* ----------------------------------------------------------- ConlluParser
\* A local variable: v is computed once and F applied to its value.
Bind(v, F(_)) == CHOOSE r \in {F(x) : x \in {v}} : TRUE

\* Text is a sequence of characters; " " is the whitespace character.
Space == " "

\* A Python dict as a set of <<key, value>> pairs.
Keys(d) == {e[1] : e \in d}
Get(d, k) == (CHOOSE e \in d : e[1] = k)[2]
Put(d, k, v) == {e \in d : e[1] # k} \cup {<<k, v>>}

\* The forms of the tokens of a sentence, by position.
Forms == <<<<"a", "b">>, <<"c">>, <<"d">>, <<"e">>>>

\* The head of every token: the dependency trees sentence.to_tree() accepts
\* have one root (head 0) from which every token is reached.
RECURSIVE Ancestor(_, _, _)
Ancestor(heads, i, k) ==
  IF k = 0 \/ i = 0 THEN i ELSE Ancestor(heads, heads[i], k - 1)
Trees(n) ==
  {heads \in [1..n -> 0..n] :
     /\ Cardinality({i \in 1..n : heads[i] = 0}) = 1
     /\ \A i \in 1..n : Ancestor(heads, i, n) = 0}

\* The text metadata of a sentence for a way of spacing its tokens.
RECURSIVE Join(_, _)
Join(seqs, gap) ==
  IF seqs = <<>> THEN <<>>
  ELSE IF Len(seqs) = 1 THEN Head(seqs)
  ELSE Head(seqs) \o gap \o Join(Tail(seqs), gap)
Text(forms, spacing) ==
  CASE spacing = "single" -> Join(forms, <<Space>>)
    [] spacing = "none" -> Join(forms, <<>>)
    [] spacing = "double" -> Join(forms, <<Space, Space>>) \o <<Space>>
    [] spacing = "inner" ->
         Join([i \in 1..Len(forms) |->
                 Join([k \in 1..Len(forms[i]) |-> <<forms[i][k]>>], <<Space>>)],
              <<Space>>)
    [] OTHER -> <<"z">>

\* The metadata of a sentence besides text, as <<field, value>> pairs.
MetaSets ==
  { {<<"sent_id", "s">>},
    {<<"newdoc id", "D">>, <<"meta::date", "2024">>},
    {<<"newpar id", "P">>},
    {<<"newdoc", "None">>, <<"newpar", "None">>},
    {<<"meta::date", "2025">>} }

\* The sentences handed to the parser: every tree over up to MaxTokens tokens
\* with its tokens one space apart, and the other spacings of a text for the
\* two-token sentence.
Bodies ==
  {[forms |-> SubSeq(Forms, 1, Len(h)), heads |-> h,
    text |-> Text(SubSeq(Forms, 1, Len(h)), "single")] :
     h \in UNION {Trees(n) : n \in 1..MaxTokens}}
BodiesSpaced ==
  {[forms |-> SubSeq(Forms, 1, 2), heads |-> <<0, 1>>,
    text |-> Text(SubSeq(Forms, 1, 2), spacing)] :
     spacing \in {"none", "double", "inner", "mismatch"}}
SentencePool(force) ==
  {[forms |-> b.forms, heads |-> b.heads, text |-> b.text, meta |-> m] :
     b \in (IF force THEN Bodies \cup BodiesSpaced ELSE Bodies), m \in MetaSets}

\* Literal and Structure objects.  Two Literal objects are told apart by the
\* sentence n they were made for, besides their fields.
Literal(n, lstart, lend, value) ==
  [obj |-> n, start |-> lstart, end |-> lend, value |-> value]
Structure(sstart, send, value, stype, lits) ==
  [start |-> sstart, end |-> send, value |-> value, stype |-> stype, literals |-> lits]

\* The annotations of a token besides id, deps and form that are not None:
\* upos, the items of the feats dict (first token only), head and deprel.
HeadValue(h) == <<"0", "1", "2", "3", "4">>[h + 1]
Annotations(i, heads) ==
  <<<<"upos", "X">>>>
    \o (IF i = 1 THEN <<<<"Number", "Sing">>>> ELSE <<>>)
    \o <<<<"head", HeadValue(heads[i])>>,
          <<"deprel", IF heads[i] = 0 THEN "root" ELSE "dep">>>>

\* parse_token: the Literals of a token, its token Structure followed by one
\* Structure per annotation, and the edges token -> annotation.
TokenLiterals(form, cur, level, n) ==
  IF level = "character"
  THEN [k \in 1..Len(form) |-> Literal(n, cur + k - 1, cur + k, <<form[k]>>)]
  ELSE <<Literal(n, cur, cur + Len(form), form)>>
ParseToken(form, annotations, cur, level, n) ==
  LET lits == TokenLiterals(form, cur, level, n)
      token == Structure(cur, cur + Len(form), "None", "token", lits)
      annos == [k \in 1..Len(annotations) |->
                  Structure(cur, cur + Len(form), annotations[k][2], annotations[k][1], lits)]
  IN  [literals |-> lits,
       structures |-> <<token>> \o annos,
       hierarchies |-> [k \in 1..Len(annos) |-> <<token, annos[k]>>]]

\* The regular expression of force alignment, '^(c1\s*c2...\s*cn)(\s*)', on
\* the rest of the text: the length of group 1, or -1 without a match.
RECURSIVE SpacesAt(_, _)
SpacesAt(rest, pos) ==
  IF pos < Len(rest) /\ rest[pos + 1] = Space THEN 1 + SpacesAt(rest, pos + 1) ELSE 0
RECURSIVE MatchChars(_, _, _, _)
MatchChars(form, rest, k, pos) ==
  IF k > Len(form) THEN pos
  ELSE LET at == IF k > 1 THEN pos + SpacesAt(rest, pos) ELSE pos IN
       IF at < Len(rest) /\ rest[at + 1] = form[k]
       THEN MatchChars(form, rest, k + 1, at + 1)
       ELSE -1

RECURSIVE SumLen(_)
SumLen(lits) == IF lits = <<>> THEN 0 ELSE Len(Head(lits).value) + SumLen(Tail(lits))

\* The intermediate whitespace Literal of force alignment: text_cursor_idx is
\* already behind the token (tc) when the Literal of length w is made.
Intermediate(n, cur, tc, w) == Literal(n, cur + tc - w, cur + tc, [k \in 1..w |-> Space])

\* The token loop of parse_sentence on the state st = [literals, structures,
\* hierarchies, tokens (token Structures by id), tc (text_cursor_idx), err].
RECURSIVE ParseTokens(_, _, _, _, _, _, _)
ParseTokens(sentence, i, st0, cur, level, force, n) ==
  Bind(st0, LAMBDA st :
  IF i > Len(sentence.forms) \/ st.err # "ok" THEN st
  ELSE
    LET form == sentence.forms[i]
        tk == ParseToken(form, Annotations(i, sentence.heads), cur + st.tc, level, n)
        rest == IF st.tc >= Len(sentence.text) THEN <<>>
                ELSE SubSeq(sentence.text, st.tc + 1, Len(sentence.text))
        m1 == MatchChars(form, rest, 1, 0)
        w == SpacesAt(rest, m1)
        tcForce == st.tc + m1
        tcDefault == st.tc + SumLen(tk.literals)
        st1 == [st EXCEPT !.literals = @ \o tk.literals,
                          !.structures = @ \o tk.structures,
                          !.hierarchies = @ \o tk.hierarchies,
                          !.tokens = Append(@, tk.structures[1])]
    IN  IF force
        THEN IF m1 < 0 THEN [st1 EXCEPT !.err = "ValueError"]
             ELSE ParseTokens(sentence, i + 1,
                    [st1 EXCEPT !.literals =
                                   IF w > 0 THEN Append(@, Intermediate(n, cur, tcForce, w)) ELSE @,
                                !.tc = tcForce + w],
                    cur, level, force, n)
        ELSE ParseTokens(sentence, i + 1,
               [st1 EXCEPT !.literals = Append(@, Literal(n, cur + tcDefault, cur + tcDefault + 1, <<Space>>)),
                           !.tc = tcDefault + 1],
               cur, level, force, n))

\* The sentence terminator Literal: one offset wide, whatever its value.
Terminator(n, cur, tc, terminator) == Literal(n, cur + tc, cur + tc + 1, terminator)

\* parse_dependencies on the subtree of token id: the dependency Structure of
\* the subtree first, the edges, and the Literals of the subtree.
ChildrenOf(heads, id) == SelectSeq([j \in 1..Len(heads) |-> j], LAMBDA j : heads[j] = id)
Min(a, b) == IF a < b THEN a ELSE b
Max(a, b) == IF a > b THEN a ELSE b
ChildLiteralsDropped(c) == <<>>
ChildLiterals(c) == c.literals

RECURSIVE ParseDependencies(_, _, _)
RECURSIVE DependencyChildren(_, _, _, _)
DependencyChildren(heads, toks, kids, acc0) ==
  Bind(acc0, LAMBDA acc :
  IF kids = <<>> THEN acc
  ELSE Bind(ParseDependencies(heads, toks, Head(kids)), LAMBDA c :
       DependencyChildren(heads, toks, Tail(kids),
         [children |-> Append(acc.children, c.structures[1]),
          structures |-> acc.structures \o c.structures,
          hierarchies |-> acc.hierarchies \o c.hierarchies,
          literals |-> acc.literals \o ChildLiterals(c),
          start |-> Min(acc.start, toks[Head(kids)].start),
          end |-> Max(acc.end, toks[Head(kids)].end)])))
ParseDependencies(heads, toks, id) ==
  Bind(DependencyChildren(heads, toks, ChildrenOf(heads, id),
               [children |-> <<>>, structures |-> <<>>, hierarchies |-> <<>>,
                literals |-> toks[id].literals,
                start |-> toks[id].start, end |-> toks[id].end]), LAMBDA acc :
  LET dependency == Structure(acc.start, acc.end,
                              IF heads[id] = 0 THEN "root" ELSE "dep",
                              "dependency", acc.literals)
  IN  [structures |-> <<dependency>> \o acc.structures,
       hierarchies |-> acc.hierarchies \o <<<<dependency, toks[id]>>>>
                         \o [k \in 1..Len(acc.children) |-> <<dependency, acc.children[k]>>],
       literals |-> acc.literals])

\* A set as a sequence, in some order.
RECURSIVE SeqOf(_)
SeqOf(S) == IF S = {} THEN <<>> ELSE LET x == CHOOSE y \in S : TRUE IN <<x>> \o SeqOf(S \ {x})

\* get_carryover_field: 'document' for newdoc and newdoc id, 'paragraph' for
\* newpar and newpar id, the field itself for meta::..., else None.
GetCarryoverField(field) ==
  IF field \in {"newdoc", "newdoc id"} THEN "document"
  ELSE IF field \in {"newpar", "newpar id"} THEN "paragraph"
  ELSE IF field \in {"meta::date"} THEN field
  ELSE "None"

\* parse_sentence: the Literals, Structures (sentence first), edges and
\* carryover fields of one sentence placed at cur.
ParseSentence(sentence, cur, level, force, terminator, n) ==
  Bind(ParseTokens(sentence, 1,
              [literals |-> <<>>, structures |-> <<>>, hierarchies |-> <<>>,
               tokens |-> <<>>, tc |-> 0, err |-> "ok"], cur, level, force, n), LAMBDA st :
  IF st.err # "ok"
  THEN [err |-> st.err, literals |-> <<>>, structures |-> <<>>, hierarchies |-> <<>>,
        carryover |-> {}]
  ELSE
  Bind(ParseDependencies(sentence.heads, st.tokens,
                         CHOOSE i \in 1..Len(sentence.heads) : sentence.heads[i] = 0),
       LAMBDA dep :
  LET lits == st.literals
                \o (IF terminator # <<>> THEN <<Terminator(n, cur, st.tc, terminator)>> ELSE <<>>)
      tc == st.tc + (IF terminator # <<>> THEN 1 ELSE 0)
      sentence_structure == Structure(cur, cur + tc, "None", "sentence", lits)
      meta == SeqOf(sentence.meta)
      kept == SelectSeq(meta, LAMBDA e : GetCarryoverField(e[1]) = "None" /\ e[1] # "text")
      annos == [k \in 1..Len(kept) |-> Structure(cur, cur + tc, kept[k][2], kept[k][1], lits)]
  IN       [err |-> "ok",
            literals |-> lits,
            structures |-> <<sentence_structure>> \o annos \o dep.structures \o st.structures,
            hierarchies |->
              dep.hierarchies \o st.hierarchies
                \o [k \in 1..Len(st.tokens) |-> <<sentence_structure, st.tokens[k]>>]
                \o [k \in 1..Len(dep.structures) |-> <<sentence_structure, dep.structures[k]>>]
                \o [k \in 1..Len(annos) |-> <<sentence_structure, annos[k]>>],
            carryover |->
              {<<GetCarryoverField(e[1]), <<e[2], cur>>>> :
                 e \in {x \in sentence.meta : GetCarryoverField(x[1]) # "None"}}]))

\* parse_carryover, first part: a paragraph or a document changes.  The open
\* paragraph is emitted and the paragraph scope reset.
CarryoverParagraph(co, nco, lits, sents, cur) ==
  IF "paragraph" \notin Keys(nco) /\ "document" \notin Keys(nco)
  THEN [nco |-> nco, lits |-> lits, sents |-> sents, structures |-> <<>>, hierarchies |-> <<>>]
  ELSE
    LET open == "paragraph" \in Keys(co)
        pv == Get(co, "paragraph")
        paragraph == Structure(pv[2], cur, "None", "paragraph", Get(lits, "paragraph"))
        pid == Structure(pv[2], cur, pv[1], "paragraph_id", Get(lits, "paragraph"))
        psents == Get(sents, "paragraph")
    IN  [nco |-> IF "paragraph" \in Keys(nco) THEN nco
                 ELSE Put(nco, "paragraph", <<"None", cur>>),
         lits |-> Put(lits, "paragraph", <<>>),
         sents |-> Put(sents, "paragraph", <<>>),
         structures |-> IF ~open THEN <<>>
                        ELSE <<paragraph>> \o (IF pv[1] # "None" THEN <<pid>> ELSE <<>>),
         hierarchies |-> IF ~open THEN <<>>
                         ELSE [k \in 1..Len(psents) |-> <<paragraph, psents[k]>>]]

\* parse_carryover, second part: a document changes.  The open document and
\* its metadata are emitted and every scope is reset to the next carryover.
CarryoverDocument(co, a0, cur) ==
  Bind(a0, LAMBDA a :
  IF "document" \notin Keys(a.nco)
  THEN [carryover |-> co, lits |-> a.lits, sents |-> a.sents,
        structures |-> a.structures, hierarchies |-> a.hierarchies]
  ELSE
    LET open == "document" \in Keys(co)
        dlits == Get(a.lits, "document")
        document == Structure(Get(co, "document")[2], cur, "None", "document", dlits)
        fields == SelectSeq(SeqOf(co), LAMBDA e : e[1] # "paragraph")
        metas == [k \in 1..Len(fields) |->
                   Structure(fields[k][2][2], cur, fields[k][2][1],
                             IF fields[k][1] = "document" THEN "document_id" ELSE fields[k][1],
                             dlits)]
        outs == a.structures \o metas
        dsents == Get(a.sents, "document")
    IN  [carryover |-> a.nco,
         lits |-> {<<k, <<>>>> : k \in Keys(a.nco)},
         sents |-> {<<k, <<>>>> : k \in Keys(a.nco)},
         structures |-> IF open THEN <<document>> \o outs ELSE a.structures,
         hierarchies |->
           IF open
           THEN a.hierarchies
                  \o [k \in 1..Len(outs) |-> <<document, outs[k]>>]
                  \o [k \in 1..Len(dsents) |-> <<document, dsents[k]>>]
           ELSE a.hierarchies])

\* parse_carryover without the next sentence joining the open scopes.
ParseCarryoverDropsSentence(co, nco, lits, nlits, sents, nsent, cur) ==
  Bind(CarryoverDocument(co, CarryoverParagraph(co, nco, lits, sents, cur), cur), LAMBDA b :
  [carryover |-> b.carryover,
   literals |-> {<<e[1], e[2] \o nlits>> : e \in b.lits},
   sentences |-> b.sents,
   structures |-> b.structures,
   hierarchies |-> b.hierarchies])

\* parse_carryover: both parts, then the Literals and the sentence of the
\* next sentence join every open scope.
ParseCarryover(co, nco, lits, nlits, sents, nsent, cur) ==
  Bind(CarryoverDocument(co, CarryoverParagraph(co, nco, lits, sents, cur), cur), LAMBDA b :
  [carryover |-> b.carryover,
   literals |-> {<<e[1], e[2] \o nlits>> : e \in b.lits},
   sentences |-> {<<e[1], e[2] \o nsent>> : e \in b.sents},
   structures |-> b.structures,
   hierarchies |-> b.hierarchies])

\* ConlluParser(literal_level, force_alignment, sentence_terminator).parse(batch)
\* with its cursor at 0, before the first sentence.
Terminators == {<<>>, <<Space>>, <<"#", "#">>}
InitParser ==
  /\ literal_level \in {"character", "token"}
  /\ force_alignment \in BOOLEAN
  /\ sentence_terminator \in Terminators
  /\ pcursor = 0
  /\ pliterals = <<>>
  /\ pstructures = <<>>
  /\ phierarchies = <<>>
  /\ carryover = {}
  /\ carryover_literals = {}
  /\ carryover_sentences = {}
  /\ plast = <<>>
  /\ pseen = <<>>
  /\ parsed = 0
  /\ ppc = "running"

\* One round of the loop of parse: parse_sentence, parse_carryover, and the
\* cursor advances by the characters of the sentence's Literals.
ParseNext ==
  /\ ppc = "running"
  /\ parsed < MaxParse
  /\ \E sentence \in SentencePool(force_alignment) :
       \E s \in {ParseSentence(sentence, pcursor, literal_level, force_alignment,
                                sentence_terminator, parsed + 1)} :
         IF s.err # "ok"
         THEN /\ ppc' = "raised"
              /\ UNCHANGED <<pcursor, pliterals, pstructures, phierarchies, carryover,
                             carryover_literals, carryover_sentences, plast, pseen, parsed>>
         ELSE \E c \in {ParseCarryover(carryover, s.carryover, carryover_literals,
                                       s.literals, carryover_sentences,
                                       <<s.structures[1]>>, pcursor)} :
                /\ pliterals' = pliterals \o s.literals
                /\ pstructures' = pstructures \o s.structures \o c.structures
                /\ phierarchies' = phierarchies \o s.hierarchies \o c.hierarchies
                /\ carryover' = c.carryover
                /\ carryover_literals' = c.literals
                /\ carryover_sentences' = c.sentences
                /\ pcursor' = pcursor + SumLen(s.literals)
                /\ plast' = <<[text |-> sentence.text, literals |-> s.literals,
                               cursor |-> pcursor]>>
                /\ pseen' = Append(pseen, [start |-> pcursor, meta |-> sentence.meta,
                                           heads |-> sentence.heads])
                /\ parsed' = parsed + 1
                /\ ppc' = ppc
  /\ UNCHANGED <<literal_level, force_alignment, sentence_terminator,
                 mvars, qvars, bvars, ivars, fvars, rvars, cvars, kvars>>

\* The batch is at its end: the open paragraph and document are flushed with
\* the 'end' carryover and parse returns.
ParseEnd ==
  /\ ppc = "running"
  /\ \E c \in {ParseCarryover(carryover,
                             {<<"document", <<"end", -1>>>>, <<"paragraph", <<"end", -1>>>>},
                             carryover_literals, <<>>, carryover_sentences, <<>>, pcursor)} :
         /\ pstructures' = pstructures \o c.structures
         /\ phierarchies' = phierarchies \o c.hierarchies
  /\ ppc' = "done"
  /\ UNCHANGED <<literal_level, force_alignment, sentence_terminator, pcursor, pliterals,
                 carryover, carryover_literals, carryover_sentences, plast, pseen, parsed,
                 mvars, qvars, bvars, ivars, fvars, rvars, cvars, kvars>>

NextParser == ParseNext \/ ParseEnd

\* The initial states of SpecParser: the other parts are idle.
InitParserOnly ==
  /\ InitManager /\ InitQueryIdle /\ InitBatcherIdle /\ InitIngestIdle /\ InitParser /\ InitFilterIdle /\ InitReadIdle /\ InitConstraintsIdle /\ InitPoolIdle
SpecParser == InitParserOnly /\ [][NextParser]_vars

\* The Literals of a set tile [lo, hi): none is empty or overlaps another, and
\* every one starts at lo or where another ends, and ends at hi or where
\* another starts.
Tile(S, lo, hi) ==
  /\ \A l \in S : lo <= l.start /\ l.start < l.end /\ l.end <= hi
  /\ \A l, m \in S : l # m => (l.end <= m.start \/ m.end <= l.start)
  /\ \A l \in S : l.start = lo \/ \E m \in S : m.end = l.start
  /\ \A l \in S : l.end = hi \/ \E m \in S : m.start = l.end
  /\ (S = {}) => lo = hi

\* C13: in default spacing mode, for both literal levels, every token is
\* followed by exactly one single-space Literal at [token.end, token.end + 1),
\* and the Literals of the batch tile [0, cursor) without gap or overlap.
C13_DefaultSpacingTiles ==
  ~force_alignment =>
    /\ \A k \in 1..Len(pstructures) :
         pstructures[k].stype = "token" =>
           Cardinality({i \in 1..Len(pliterals) :
                          /\ pliterals[i].start = pstructures[k].end
                          /\ pliterals[i].end = pstructures[k].end + 1
                          /\ pliterals[i].value = <<Space>>}) = 1
    /\ Tile(Range(pliterals), 0, pcursor)

\* The values of a sequence of Literals in ascending order of start, joined.
ConcatValues(lits) ==
  Concat([k \in 1..Len(lits) |->
            SortSeq(lits, LAMBDA a, b : a.start < b.start)[k].value])

\* C14: in force-alignment mode the Literals of a sentence whose tokens were
\* found in its text tile the sentence from its cursor on, the whitespace
\* after a token directly behind the token, and their values in start order
\* spell the text metadata (followed by the sentence terminator).
C14_ForceAlignmentRebuildsText ==
  (force_alignment /\ plast # <<>>) =>
    /\ Tile(Range(plast[1].literals), plast[1].cursor,
            plast[1].cursor + Len(plast[1].text)
              + (IF sentence_terminator # <<>> THEN 1 ELSE 0))
    /\ ConcatValues(plast[1].literals) = plast[1].text \o sentence_terminator

\* C15: every Structure the parser emits spans the Literals it holds:
\* S.start <= L.start < L.end <= S.end.
C15_StructureSpansItsLiterals ==
  \A k \in 1..Len(pstructures) :
    \A l \in Range(pstructures[k].literals) :
      /\ pstructures[k].start <= l.start
      /\ l.start < l.end
      /\ l.end <= pstructures[k].end

\* C16: for every hierarchy edge (P, C) the parser emits, every Literal of C
\* is a Literal of P.
C16_ChildLiteralsInParent ==
  \A k \in 1..Len(phierarchies) :
    Range(phierarchies[k][2].literals) \subseteq Range(phierarchies[k][1].literals)
C16_Witness ==
  /\ ppc = "done" /\ parsed = 2
  /\ \E k \in 1..Len(phierarchies) :
       /\ phierarchies[k][1].stype = "document"
       /\ phierarchies[k][2].stype = "paragraph"
  /\ \E k \in 1..Len(phierarchies) :
       /\ phierarchies[k][1].stype = "paragraph"
       /\ phierarchies[k][2].stype = "sentence"
  /\ \E k \in 1..Len(phierarchies) :
       /\ phierarchies[k][1].stype = "dependency"
       /\ phierarchies[k][2].stype = "dependency"
       /\ Len(phierarchies[k][2].literals) >= 2
  /\ \E k \in 1..Len(phierarchies) :
       /\ phierarchies[k][1].stype = "token"
       /\ phierarchies[k][2].stype = "upos"


\* The sentences of the batch that open a document or a paragraph, the
\* sentence at which what sentence k opened ends (one past the last when the
\* batch ends first), and the cursor at which sentence j starts.
Opens(k, field) == \E e \in pseen[k].meta : GetCarryoverField(e[1]) = field
DocStarts == {k \in 1..Len(pseen) : Opens(k, "document")}
ParStarts == {k \in 1..Len(pseen) : Opens(k, "paragraph")}
NextOpen(k, S) ==
  IF \E j \in S : j > k
  THEN CHOOSE j \in S : j > k /\ \A i \in S : i > k => j <= i
  ELSE Len(pseen) + 1
StartAt(j) == IF j > Len(pseen) THEN pcursor ELSE pseen[j].start
\* The sentence Structure of sentence n, and the sentence edges of a Structure.
SentenceOf(n) ==
  CHOOSE s \in Range(pstructures) : s.stype = "sentence" /\ s.literals[1].obj = n
SentencesUnder(parent) ==
  {h[2] : h \in {g \in Range(phierarchies) : g[1] = parent /\ g[2].stype = "sentence"}}
OfType(stype) == SelectSeq(pstructures, LAMBDA s : s.stype = stype)
Disjoint(S) == \A a, b \in S : a # b => (a.end <= b.start \/ b.end <= a.start)

\* C27: every paragraph Structure of a parse call covers the sentences from
\* the one that opened the paragraph (a newpar marker, or the newdoc marker
\* that opens a document and its first paragraph) to where the next paragraph
\* or document opens, its paragraph_id sibling carries that paragraph's id,
\* its sentence edges are exactly those sentences, and paragraphs do not
\* overlap.
C27_ParagraphsCoverTheirSentences ==
  ppc = "done" =>
    /\ \A p \in Range(OfType("paragraph")) :
         \E k \in ParStarts \cup DocStarts :
           LET n == NextOpen(k, ParStarts \cup DocStarts) IN
           /\ p.start = pseen[k].start
           /\ p.end = StartAt(n)
           /\ SentencesUnder(p) = {SentenceOf(i) : i \in k..(n - 1)}
           /\ \A e \in pseen[k].meta :
                e[1] = "newpar id" =>
                  \E s \in Range(OfType("paragraph_id")) :
                    s.start = p.start /\ s.end = p.end /\ s.value = e[2]
    /\ Disjoint(Range(OfType("paragraph")))

\* C28: a parse call whose first sentence carries a newdoc marker emits one
\* document Structure per marker, from the start of the marked sentence to the
\* start of the next marked sentence or the end of the batch, with a sentence
\* edge to exactly the sentences in between; documents do not overlap.
C28_OneDocumentPerMarker ==
  (ppc = "done" /\ 1 \in DocStarts) =>
    /\ Len(OfType("document")) = Cardinality(DocStarts)
    /\ \A k \in DocStarts :
         \E d \in Range(OfType("document")) :
           /\ d.start = pseen[k].start
           /\ d.end = StartAt(NextOpen(k, DocStarts))
           /\ SentencesUnder(d) = {SentenceOf(i) : i \in k..(NextOpen(k, DocStarts) - 1)}
    /\ Disjoint(Range(OfType("document")))
C28_Witness ==
  /\ ppc = "done"
  /\ DocStarts = {1, 2}
  /\ Len(OfType("document")) = 2
  /\ \E d \in Range(OfType("document")) :
       d.start = pseen[2].start /\ d.end = pcursor /\ SentencesUnder(d) = {SentenceOf(2)}

\* C29: a meta:: field on any sentence of a document yields, when the document
\* closes, exactly one Structure of that field and value under that document.
C29_MetaCarriedToDocument ==
  ppc = "done" =>
    \A k \in 1..Len(pseen) :
      \A e \in pseen[k].meta :
        (e[1] = "meta::date" /\ \E j \in DocStarts : j <= k) =>
          LET j == CHOOSE i \in DocStarts : i <= k /\ \A l \in DocStarts : l <= k => l <= i
          IN  \E d \in Range(OfType("document")) :
                /\ d.start = pseen[j].start
                /\ Len(SelectSeq(pstructures, LAMBDA s :
                          /\ s.stype = e[1]
                          /\ s.value = e[2]
                          /\ <<d, s>> \in Range(phierarchies))) = 1

\* C39: the sentence Structures of a batch tile its text: the first starts at
\* the cursor the batch started with (0), every next one where the one before
\* ends, and the cursor of parse is the end of the last one, in both spacing
\* modes and for every sentence_terminator.
C39_SentencesTileTheBatch ==
  \A n \in 1..Len(pseen) :
    /\ SentenceOf(n).start = (IF n = 1 THEN 0 ELSE SentenceOf(n - 1).end)
    /\ n = Len(pseen) => pcursor = SentenceOf(n).end

\* The tokens of sentence n in order, and the transitive dependents of a head.
TokensOf(n) == SelectSeq(pstructures, LAMBDA s : s.stype = "token" /\ s.literals[1].obj = n)
Dependents(heads, h) ==
  {i \in 1..Len(heads) : \E k \in 0..Len(heads) : Ancestor(heads, i, k) = h}

\* C30: the dependency Structure of every head starts at the least start and
\* ends at the greatest end of the tokens of the head's transitive dependents.
C30_DependencySpansDependents ==
  \A n \in 1..Len(pseen) :
    \A h \in 1..Len(pseen[n].heads) :
      \E d \in Range(OfType("dependency")) :
        /\ d.literals[1] = TokensOf(n)[h].literals[1]
        /\ \A i \in Dependents(pseen[n].heads, h) :
             d.start <= TokensOf(n)[i].start /\ TokensOf(n)[i].end <= d.end
        /\ \E i \in Dependents(pseen[n].heads, h) : d.start = TokensOf(n)[i].start
        /\ \E i \in Dependents(pseen[n].heads, h) : d.end = TokensOf(n)[i].end

\* ---------------------------------------------------------------------------
\* The filter compiler
\* ---------------------------------------------------------------------------

\* A Condition, as far as the choice of the view reads it: its literal, "None"
\* or a surface form.  A Criterion is the sequence of its conditions.
Conditions == [literal : {"None", "cat"}]
ConditionHasLiterals(c) == c.literal # "None"
CriterionHasLiterals(criterion) ==
  \E k \in 1..Len(criterion) : ConditionHasLiterals(criterion[k])
Criteria == UNION {[1..n -> Conditions] : n \in 1..MaxConditions}

\* A Filter: criteria, sequential and hierarchy.  hierarchy is {} for None and
\* {h} for the list h.
Hierarchies == {{}, {<<"sentence">>}, {<<"sentence", "token">>}}
Filters ==
  [criteria : UNION {[1..n -> Criteria] : n \in 1..MaxCriteria},
   sequential : BOOLEAN,
   hierarchy : Hierarchies]
FilterHasLiterals(f) ==
  \E k \in 1..Len(f.criteria) : CriterionHasLiterals(f.criteria[k])
OutputLevels == {"structures", "substructures", "sentence", "literals"}

\* construct_views: the layers the query defines before its SELECT.
ConstructViews(f) ==
  <<"relevant_structures">>
    \o (IF FilterHasLiterals(f) THEN <<"filtered_literals">> ELSE <<>>)
    \o (IF f.sequential THEN <<"filtered_sequences">> ELSE <<>>)
    \o (IF f.hierarchy # {}
        THEN <<"filtered_structures", "filtered_constrained_substructures">>
        ELSE <<>>)
    \o <<"filtered_substructures">>

\* relevant_view of _construct_filter_query, the assignments in the order of
\* the code; "NotImplementedError" stands for the raise.
RelevantViewLiteralsLast(f, level) ==
  LET v1 == "filtered_substructures"
      v2 == IF f.sequential THEN "filtered_sequences" ELSE v1
      v3 == IF FilterHasLiterals(f) THEN "filtered_literals" ELSE v2
  IN  IF f.hierarchy # {}
      THEN IF level = "substructures" THEN "filtered_constrained_substructures"
           ELSE IF level = "structures" THEN "filtered_structures"
           ELSE "NotImplementedError"
      ELSE v3
RelevantView(f, level) ==
  LET v1 == "filtered_substructures"
      v2 == IF FilterHasLiterals(f) THEN "filtered_literals" ELSE v1
      v3 == IF f.sequential THEN "filtered_sequences" ELSE v2
  IN  IF f.hierarchy # {}
      THEN IF level = "substructures" THEN "filtered_constrained_substructures"
           ELSE IF level = "structures" THEN "filtered_structures"
           ELSE "NotImplementedError"
      ELSE v3
OutputColumns(f, level) ==
  IF f.hierarchy # {} /\ level = "structures"
  THEN "structure_id, structure_start, structure_end"
  ELSE "substructure_id, start, end"

\* _construct_filter_query: the query, or the error it raises.
ConstructFilterQuery(f, level) ==
  IF RelevantView(f, level) = "NotImplementedError"
  THEN [err |-> "NotImplementedError", query |-> <<>>]
  ELSE [err |-> "ok",
        query |-> <<[views |-> ConstructViews(f),
                     columns |-> OutputColumns(f, level),
                     view |-> RelevantView(f, level)]>>]

InitFilter ==
  /\ constraint \in Filters
  /\ output_level \in OutputLevels
  /\ fcall = "None"
  /\ fpc = "idle"
  /\ filter_query = <<>>
  /\ fsent = <<>>

\* _construct_filter_query called on its own: it builds the query and sends
\* nothing.
ConstructFilterQueryCall ==
  /\ fpc = "idle"
  /\ fcall' = "_construct_filter_query"
  /\ \E r \in {ConstructFilterQuery(constraint, output_level)} :
       /\ fpc' = IF r.err = "ok" THEN "compiled" ELSE "raised"
       /\ filter_query' = r.query
  /\ UNCHANGED <<constraint, output_level, fsent, mvars, qvars, bvars, ivars, pvars, rvars, cvars, kvars>>

\* get_filter_ranges is a generator function: the call runs none of its body.
GetFilterRangesCall ==
  /\ fpc = "idle"
  /\ fcall' = "get_filter_ranges"
  /\ fpc' = "created"
  /\ UNCHANGED <<constraint, output_level, filter_query, fsent, mvars, qvars, bvars,
                 ivars, pvars, rvars, cvars, kvars>>

\* The first next() on the generator: the query is built, and handed to
\* query_shards unless building it raised.
GetFilterRangesNext ==
  /\ fpc = "created"
  /\ \E r \in {ConstructFilterQuery(constraint, output_level)} :
       /\ fpc' = IF r.err = "ok" THEN "querying" ELSE "raised"
       /\ filter_query' = r.query
       /\ fsent' = fsent \o r.query
  /\ UNCHANGED <<constraint, output_level, fcall, mvars, qvars, bvars, ivars, pvars, rvars, cvars, kvars>>

\* The rows of query_shards have all been yielded.
GetFilterRangesEnd ==
  /\ fpc = "querying"
  /\ fpc' = "done"
  /\ UNCHANGED <<constraint, output_level, fcall, filter_query, fsent, mvars, qvars,
                 bvars, ivars, pvars, rvars, cvars, kvars>>

NextFilter ==
  \/ ConstructFilterQueryCall
  \/ GetFilterRangesCall
  \/ GetFilterRangesNext
  \/ GetFilterRangesEnd

\* The initial states of SpecFilter: the other parts are idle.
InitFilterOnly ==
  /\ InitManager /\ InitQueryIdle /\ InitBatcherIdle /\ InitIngestIdle /\ InitParserIdle
  /\ InitFilter /\ InitReadIdle /\ InitConstraintsIdle /\ InitPoolIdle
SpecFilter == InitFilterOnly /\ [][NextFilter]_vars

\* The terminal view of a filter, by the rows of the table; "error" where the
\* table has no row.
TerminalView(hierarchy_set, level, has_literal, sequential) ==
  CASE ~hierarchy_set /\ ~has_literal /\ ~sequential -> "filtered_substructures"
    [] ~hierarchy_set /\ has_literal /\ ~sequential -> "filtered_literals"
    [] ~hierarchy_set /\ sequential -> "filtered_sequences"
    [] hierarchy_set /\ level = "substructures" -> "filtered_constrained_substructures"
    [] hierarchy_set /\ level = "structures" -> "filtered_structures"
    [] OTHER -> "error"
Expected ==
  TerminalView(constraint.hierarchy # {}, output_level,
               \E i \in 1..Len(constraint.criteria) :
                 \E j \in 1..Len(constraint.criteria[i]) :
                   constraint.criteria[i][j].literal # "None",
               constraint.sequential)

\* C20: the query _construct_filter_query builds selects from the terminal
\* view of the table; with a hierarchy and an output_level that is neither
\* 'substructures' nor 'structures' it raises instead, and no query has been
\* handed to a shard.
C20_TerminalView ==
  /\ fpc \in {"compiled", "querying", "done"} =>
       /\ Expected # "error"
       /\ Len(filter_query) = 1
       /\ filter_query[1].view = Expected
  /\ fpc = "raised" <=> (fcall # "None" /\ fpc # "created" /\ Expected = "error")
  /\ fpc = "raised" => (filter_query = <<>> /\ fsent = <<>>)
  /\ fpc \in {"querying", "done"} => fsent = filter_query
C20_Witness ==
  /\ fcall = "get_filter_ranges"
  /\ fpc = "raised"
  /\ constraint.hierarchy = {<<"sentence", "token">>}
  /\ constraint.sequential
  /\ output_level = "sentence"
  /\ fsent = <<>>

\* ---------------------------------------------------------------------------
\* The read operations: exports, mask, filter and statistics
\* ---------------------------------------------------------------------------

\* The sentences of the stored shards: one token; two tokens of which the
\* second is the head of the first; two tokens of which the first is the head.
CorpusSentences ==
  { [forms |-> SubSeq(Forms, 1, 1), heads |-> <<0>>,
     text |-> Text(SubSeq(Forms, 1, 1), "single"), meta |-> {<<"sent_id", "s">>}],
    [forms |-> SubSeq(Forms, 1, 2), heads |-> <<2, 0>>,
     text |-> Text(SubSeq(Forms, 1, 2), "single"),
     meta |-> {<<"newdoc id", "D">>, <<"meta::date", "2024">>}],
    [forms |-> SubSeq(Forms, 1, 2), heads |-> <<0, 1>>,
     text |-> Text(SubSeq(Forms, 1, 2), "single"),
     meta |-> {<<"newdoc", "None">>, <<"newpar", "None">>}] }

\* parse of a batch of one sentence, as the import script configures the
\* parser by default: token literals, default spacing, terminator ' '.
ParseOne(sentence) ==
  Bind(ParseSentence(sentence, 0, "token", FALSE, <<Space>>, 1), LAMBDA s :
  Bind(ParseCarryover({}, s.carryover, {}, s.literals, {}, <<s.structures[1]>>, 0), LAMBDA c :
  Bind(ParseCarryover(c.carryover,
                      {<<"document", <<"end", -1>>>>, <<"paragraph", <<"end", -1>>>>},
                      c.literals, <<>>, c.sentences, <<>>, SumLen(s.literals)), LAMBDA e :
  [literals |-> s.literals,
   structures |-> s.structures \o c.structures \o e.structures,
   hierarchies |-> s.hierarchies \o c.hierarchies \o e.hierarchies])))

\* The rows add writes to a fresh shard for one batch: ids from 1 in list
\* order, one structure_literals row per Literal of a Structure in the order
\* of Structure.literals.
IndexIn(seq, x) == CHOOSE i \in 1..Len(seq) : seq[i] = x
StoredShard(b) ==
  [literals |->
     [i \in 1..Len(b.literals) |->
        [id |-> i, start |-> b.literals[i].start, end |-> b.literals[i].end,
         value |-> b.literals[i].value]],
   structures |->
     [i \in 1..Len(b.structures) |->
        [id |-> i, start |-> b.structures[i].start, end |-> b.structures[i].end,
         type |-> b.structures[i].stype, value |-> b.structures[i].value]],
   structure_literals |->
     Concat([i \in 1..Len(b.structures) |->
               [k \in 1..Len(b.structures[i].literals) |->
                  <<i, IndexIn(b.literals, b.structures[i].literals[k])>>]]),
   hierarchical_structures |->
     [i \in 1..Len(b.hierarchies) |->
        <<IndexIn(b.structures, b.hierarchies[i][1]),
          IndexIn(b.structures, b.hierarchies[i][2])>>]]
ShardPool == {StoredShard(ParseOne(sentence)) : sentence \in CorpusSentences}
Corpora == UNION {[1..n -> ShardPool] : n \in 1..MaxShards}

\* GROUP_CONCAT(value, "") over rows in the order they are visited; SQL NULL
\* (Python None) for no row.  An optional text is <<>> for None and <<text>>.
GroupConcat(rows) ==
  IF rows = <<>> THEN <<>> ELSE <<Concat([k \in 1..Len(rows) |-> rows[k].value])>>

\* The WHERE clause of export_ranges for the parameters (start, end).
RangeWhere(l, rstart, rend, invert) ==
  IF invert THEN l.start < rstart /\ l.end > rend
  ELSE l.start >= rstart /\ l.end <= rend

\* export_ranges, run to its end: one text per range (shard, id, start, end)
\* whose query returned a text; then the index disconnects.
ExportRanges(ix, ranges, invert) ==
  [err |-> "ok",
   value |-> Concat([k \in 1..Len(ranges) |->
                      GroupConcat(SelectSeq(ix[ranges[k][1] + 1].literals,
                                            LAMBDA l : RangeWhere(l, ranges[k][3], ranges[k][4],
                                                                  invert)))]),
   connected |-> None]

\* The ranges a caller holds: the rows (shard, id, start, end) of stored
\* sentences, tokens and dependencies, as get_filter_ranges yields them.
RangesOf(ix) ==
  UNION {{<<s - 1, row.id, row.start, row.end>> :
            row \in {r \in Range(ix[s].structures) :
                       r.type \in {"sentence", "token", "dependency"}}} :
           s \in 1..Len(ix)}
RangeLists(ix) == UNION {[1..n -> RangesOf(ix)] : n \in 1..MaxRequests}

\* query_shards on n shards with nq queries, where run[q][s] is the rows of
\* query q on shard s: the rows as (shard_idx, row), shard after shard.
QueryShardsOn(n, nq, run) ==
  IF nq = 1
  THEN [err |-> "ok",
        value |-> Concat([s \in 1..n |->
                            [k \in 1..Len(run[1][s]) |-> <<s - 1, run[1][s][k]>>]])]
  ELSE IF nq # n
  THEN [err |-> "ValueError", value |-> <<>>]
  ELSE [err |-> "ok",
        value |-> Concat([s \in 1..n |->
                            [k \in 1..Len(run[s][s]) |-> <<s - 1, run[s][s][k]>>]])]

\* The Literal row of a shard with an id.
LiteralRow(shard, lid) == CHOOSE l \in Range(shard.literals) : l.id = lid
\* The Literal rows joined to a structure id, in the order the join visits
\* structure_literals: the order the rows were inserted in.
JoinedLiterals(shard, sid) ==
  [k \in 1..Len(SelectSeq(shard.structure_literals, LAMBDA sl : sl[1] = sid)) |->
     LiteralRow(shard, SelectSeq(shard.structure_literals, LAMBDA sl : sl[1] = sid)[k][2])]

\* The query of export_structures for the ids requested of one shard: a row
\* (id, text) per stored structure among them that has a Literal.
ExportStructuresQuery(shard, sids) ==
  [k \in 1..Len(SelectSeq(shard.structures,
                          LAMBDA r : r.id \in Range(sids) /\ JoinedLiterals(shard, r.id) # <<>>)) |->
     <<SelectSeq(shard.structures,
                 LAMBDA r : r.id \in Range(sids) /\ JoinedLiterals(shard, r.id) # <<>>)[k].id,
       GroupConcat(JoinedLiterals(shard,
         SelectSeq(shard.structures,
                   LAMBDA r : r.id \in Range(sids) /\ JoinedLiterals(shard, r.id) # <<>>)[k].id))[1]>>]

\* structures_by_shard of export_structures and export_masked.
StructuresByShard(n, requests) ==
  [s \in 1..n |->
     [k \in 1..Len(SelectSeq(requests, LAMBDA q : q[1] = s - 1)) |->
        SelectSeq(requests, LAMBDA q : q[1] = s - 1)[k][2]]]

\* The texts export_structures yields for the requests in their order, up to
\* the first request whose (shard, id) no row came back for (KeyError).
RECURSIVE YieldExports(_, _, _)
YieldExports(requests, yielded, acc) ==
  IF requests = <<>> THEN [err |-> "ok", value |-> acc]
  ELSE IF \E y \in Range(yielded) : y[1] = Head(requests)[1] /\ y[2][1] = Head(requests)[2]
  THEN YieldExports(Tail(requests), yielded,
                    Append(acc, (CHOOSE y \in Range(yielded) :
                                   y[1] = Head(requests)[1] /\ y[2][1] = Head(requests)[2])[2][2]))
  ELSE [err |-> "KeyError", value |-> acc]
ExportStructuresFirstShard(ix, requests) ==
  Bind(QueryShardsOn(Len(ix), Len(ix),
                     [q \in 1..Len(ix) |-> [s \in 1..Len(ix) |->
                        ExportStructuresQuery(ix[s], StructuresByShard(Len(ix), requests)[q])]]),
       LAMBDA y :
         IF y.err # "ok" THEN y
         ELSE YieldExports(SelectSeq(requests, LAMBDA q : q[1] = 0), y.value, <<>>))
ExportStructures(ix, requests) ==
  Bind(QueryShardsOn(Len(ix), Len(ix),
                     [q \in 1..Len(ix) |-> [s \in 1..Len(ix) |->
                        ExportStructuresQuery(ix[s], StructuresByShard(Len(ix), requests)[q])]]),
       LAMBDA y :
         IF y.err # "ok" THEN y ELSE YieldExports(requests, y.value, <<>>))

\* The filters of the read operations: all structures of one type, without
\* hierarchy.  Their terminal view filtered_substructures holds a row
\* (substructure_id, start, end) per structure of the type.
FilterTypes == {"token", "sentence", "dependency", "upos", "lemma"}
TerminalViewRows(shard, stype) ==
  [k \in 1..Len(SelectSeq(shard.structures, LAMBDA r : r.type = stype)) |->
     <<SelectSeq(shard.structures, LAMBDA r : r.type = stype)[k].id,
       SelectSeq(shard.structures, LAMBDA r : r.type = stype)[k].start,
       SelectSeq(shard.structures, LAMBDA r : r.type = stype)[k].end>>]

\* get_filter_ranges, run to its end: the rows of the one query on every
\* shard as (shard_idx, structure_id, start, end).
GetFilterRanges(ix, stype) ==
  Bind(QueryShardsOn(Len(ix), 1, <<[s \in 1..Len(ix) |-> TerminalViewRows(ix[s], stype)]>>),
       LAMBDA y :
         [err |-> y.err,
          value |-> [k \in 1..Len(y.value) |->
                       <<y.value[k][1], y.value[k][2][1], y.value[k][2][2], y.value[k][2][3]>>]])

\* zip of two sequences.
Zip(a, b) == [k \in 1..Min(Len(a), Len(b)) |-> <<a[k], b[k]>>]

\* filter, run to its end: every range with the export of its structure.
Filter(ix, stype) ==
  Bind(GetFilterRanges(ix, stype), LAMBDA fr :
  IF fr.err # "ok" THEN fr ELSE
  Bind(ExportStructures(ix, [k \in 1..Len(fr.value) |-> <<fr.value[k][1], fr.value[k][2]>>]),
       LAMBDA ex :
         [err |-> ex.err,
          value |-> [k \in 1..Len(Zip(fr.value, ex.value)) |->
                       <<fr.value[k][1], fr.value[k][2], fr.value[k][3], fr.value[k][4],
                         ex.value[k]>>]]))

\* Python values as far as + tells them apart.
PyStr(text) == [type |-> "str", v |-> text]
PyTuple(items) == [type |-> "tuple", v |-> items]
\* a + b, or the TypeError of a str and a tuple.
PyAdd(a, b) ==
  IF a.type = "TypeError" \/ a.type # b.type THEN [type |-> "TypeError", v |-> <<>>]
  ELSE [type |-> a.type, v |-> a.v \o b.v]
RECURSIVE PyAddAll(_, _)
PyAddAll(acc, items) ==
  IF items = <<>> THEN acc ELSE PyAddAll(PyAdd(acc, Head(items)), Tail(items))

\* The query of export_masked for the ids requested of one shard: one row
\* holding the joined values of the Literals that are joined to none of them.
ExportMaskedQuery(shard, sids) ==
  <<GroupConcat(SelectSeq(shard.literals,
                          LAMBDA l : ~\E sl \in Range(shard.structure_literals) :
                                        sl[1] \in Range(sids) /\ sl[2] = l.id))>>

\* export_masked: export += shard_export for everything query_shards yields,
\* and what query_shards yields is the tuple (shard_idx, row).
ExportMasked(ix, masked) ==
  Bind(QueryShardsOn(Len(ix), Len(ix),
                     [q \in 1..Len(ix) |-> [s \in 1..Len(ix) |->
                        ExportMaskedQuery(ix[s], StructuresByShard(Len(ix), masked)[q])]]),
       LAMBDA y :
         IF y.err # "ok" THEN y
         ELSE Bind(PyAddAll(PyStr(<<>>), [k \in 1..Len(y.value) |-> PyTuple(y.value[k])]),
                   LAMBDA export :
                     IF export.type = "str" THEN [err |-> "ok", value |-> export.v]
                     ELSE [err |-> "TypeError", value |-> <<>>]))

\* re.sub(r'(\s)+', r'\1', export): every run of whitespace becomes its last
\* character.
RECURSIVE CleanWhitespace(_)
CleanWhitespace(text) ==
  IF Len(text) < 2 THEN text
  ELSE IF text[1] = Space /\ text[2] = Space THEN CleanWhitespace(Tail(text))
  ELSE <<text[1]>> \o CleanWhitespace(Tail(text))

\* mask: the ranges of the filter, export_masked of their structures, and the
\* whitespace cleaned when asked for.
Mask(ix, stype, clean_whitespace) ==
  Bind(GetFilterRanges(ix, stype), LAMBDA fr :
  IF fr.err # "ok" THEN fr ELSE
  Bind(ExportMasked(ix, [k \in 1..Len(fr.value) |-> <<fr.value[k][1], fr.value[k][2]>>]),
       LAMBDA ex :
         IF ex.err # "ok" THEN ex
         ELSE [err |-> "ok",
               value |-> IF clean_whitespace THEN CleanWhitespace(ex.value) ELSE ex.value]))

\* The (shard, structure id) requests a caller makes.
RequestLists(ix) ==
  UNION {[1..n -> {<<r[1], r[2]>> : r \in RangesOf(ix)}] : n \in 1..MaxRequests}

InitRead ==
  /\ corpus \in Corpora
  /\ rcall = "None"
  /\ rargs = <<>>
  /\ rresult = <<>>
  /\ rconnected = None

ExportRangesCall ==
  /\ rcall = "None"
  /\ \E ranges \in RangeLists(corpus), invert \in BOOLEAN :
       \E r \in {ExportRanges(corpus, ranges, invert)} :
         /\ rcall' = "export_ranges"
         /\ rargs' = [ranges |-> ranges, invert |-> invert]
         /\ rresult' = [err |-> r.err, value |-> r.value]
         /\ rconnected' = r.connected
  /\ UNCHANGED <<corpus, mvars, qvars, bvars, ivars, pvars, fvars, cvars, kvars>>

ExportStructuresCall ==
  /\ rcall = "None"
  /\ \E requests \in RequestLists(corpus) :
       \E r \in {ExportStructures(corpus, requests)} :
         /\ rcall' = "export_structures"
         /\ rargs' = [structures |-> requests]
         /\ rresult' = r
  /\ UNCHANGED <<corpus, rconnected, mvars, qvars, bvars, ivars, pvars, fvars, cvars, kvars>>

\* The sum of a sequence of numbers.
RECURSIVE SumSeq(_)
SumSeq(seq) == IF seq = <<>> THEN 0 ELSE Head(seq) + SumSeq(Tail(seq))

\* get_size: the three COUNT queries, each summed over what the shards yield.
SizeOf(ix) ==
  <<SumSeq([k \in 1..Len(QueryShardsOn(Len(ix), 1, <<[s \in 1..Len(ix) |-> <<<<Len(ix[s].literals)>>>>]>>).value) |->
              QueryShardsOn(Len(ix), 1, <<[s \in 1..Len(ix) |-> <<<<Len(ix[s].literals)>>>>]>>).value[k][2][1]]),
    SumSeq([k \in 1..Len(QueryShardsOn(Len(ix), 1, <<[s \in 1..Len(ix) |-> <<<<Len(ix[s].structures)>>>>]>>).value) |->
              QueryShardsOn(Len(ix), 1, <<[s \in 1..Len(ix) |-> <<<<Len(ix[s].structures)>>>>]>>).value[k][2][1]]),
    SumSeq([k \in 1..Len(QueryShardsOn(Len(ix), 1, <<[s \in 1..Len(ix) |-> <<<<Len(ix[s].hierarchical_structures)>>>>]>>).value) |->
              QueryShardsOn(Len(ix), 1, <<[s \in 1..Len(ix) |-> <<<<Len(ix[s].hierarchical_structures)>>>>]>>).value[k][2][1]])>>

\* SELECT fields, COUNT(*) ... GROUP BY fields over rows with the given
\* fields: one row (fields, total) per distinct value of the fields.
FirstOccurrences(keys) == {i \in 1..Len(keys) : \A j \in 1..(i - 1) : keys[j] # keys[i]}
Nth(S, k) == CHOOSE x \in S : Cardinality({y \in S : y <= x}) = k
GroupCount(keys) ==
  Bind(FirstOccurrences(keys), LAMBDA firsts :
    [k \in 1..Cardinality(firsts) |->
       Bind(keys[Nth(firsts, k)], LAMBDA key :
         <<key, Cardinality({j \in 1..Len(keys) : keys[j] = key})>>)])

\* counts[key] = counts.get(key, 0) + count, a dict being a function of its keys.
MergeCountOverwrite(counts, key, count) ==
  [k \in DOMAIN counts \cup {key} |-> IF k = key THEN count ELSE counts[k]]
MergeCount(counts, key, count) ==
  [k \in DOMAIN counts \cup {key} |->
     IF k = key THEN (IF key \in DOMAIN counts THEN counts[key] ELSE 0) + count
     ELSE counts[k]]
RECURSIVE MergeCounts(_, _)
MergeCounts(counts, rows) ==
  IF rows = <<>> THEN counts
  ELSE Bind(MergeCount(counts, Head(rows)[2][1], Head(rows)[2][2]),
            LAMBDA merged : MergeCounts(merged, Tail(rows)))

\* get_literal_counts: the counts per value of every shard, merged.
LiteralCounts(ix) ==
  Bind(QueryShardsOn(Len(ix), 1,
                     <<[s \in 1..Len(ix) |->
                          GroupCount([i \in 1..Len(ix[s].literals) |->
                                        ix[s].literals[i].value])]>>).value,
       LAMBDA rows : MergeCounts(<<>>, rows))

\* The table get_structure_counts counts over: the structures of the asked
\* types, with literals those joined to a Literal and their joined text.
StructureTable(shard, types, literals) ==
  SelectSeq(shard.structures,
            LAMBDA r : /\ types = <<>> \/ r.type \in Range(types[1])
                       /\ literals => \E sl \in Range(shard.structure_literals) : sl[1] = r.id)
\* The fields of a row, and the key made of them: a single field is the key
\* itself.
StructureFields(shard, r, values, literals) ==
  <<r.type>> \o (IF values THEN <<r.value>> ELSE <<>>)
             \o (IF literals THEN <<GroupConcat(JoinedLiterals(shard, r.id))>> ELSE <<>>)
StructureKey(fields) == IF Len(fields) = 1 THEN fields[1] ELSE fields
StructureCounts(ix, types, values, literals) ==
  Bind(QueryShardsOn(Len(ix), 1,
                <<[s \in 1..Len(ix) |->
                     Bind(StructureTable(ix[s], types, literals), LAMBDA tab :
                     Bind([i \in 1..Len(tab) |->
                             StructureFields(ix[s], tab[i], values, literals)], LAMBDA keys :
                     Bind(GroupCount(keys), LAMBDA g :
                       [k \in 1..Len(g) |-> <<StructureKey(g[k][1]), g[k][2]>>])))]>>).value,
       LAMBDA rows : MergeCounts(<<>>, rows))

\* The types arguments a caller gives: None, or a list of types.
TypeLists == {<<>>, <<<<"token", "dependency">>>>, <<<<"lemma">>>>}

GetSizeCall ==
  /\ rcall = "None"
  /\ rcall' = "get_size"
  /\ rargs' = <<>>
  /\ rresult' = [err |-> "ok", value |-> SizeOf(corpus)]
  /\ UNCHANGED <<corpus, rconnected, mvars, qvars, bvars, ivars, pvars, fvars, cvars, kvars>>

GetLiteralCountsCall ==
  /\ rcall = "None"
  /\ rcall' = "get_literal_counts"
  /\ rargs' = <<>>
  /\ rresult' = [err |-> "ok", value |-> LiteralCounts(corpus)]
  /\ UNCHANGED <<corpus, rconnected, mvars, qvars, bvars, ivars, pvars, fvars, cvars, kvars>>

GetStructureCountsCall ==
  /\ rcall = "None"
  /\ \E types \in TypeLists, values \in BOOLEAN, literals \in BOOLEAN :
       /\ rcall' = "get_structure_counts"
       /\ rargs' = [types |-> types, values |-> values, literals |-> literals]
       /\ rresult' = [err |-> "ok", value |-> StructureCounts(corpus, types, values, literals)]
  /\ UNCHANGED <<corpus, rconnected, mvars, qvars, bvars, ivars, pvars, fvars, cvars, kvars>>

\* The filters of get_cooccurrence: one condition on a structure type, and a
\* hierarchy ({} for None, {<<parent_type, child_type>>} otherwise).
CoocTypes == {"upos", "deprel", "token", "dependency"}
CoocHierarchies == {{}, {<<"sentence", "token">>}, {<<"token", "upos">>}}
CoocFilters == [type : CoocTypes, hierarchy : CoocHierarchies]

\* 'type=' || "type=<type>": NULL when the value is NULL.
Label(r) == IF r.value = "None" THEN "None" ELSE r.type \o "=" \o r.value

\* The rows of the views of a filter on a shard.  filtered_substructures: the
\* structures of the type; filtered_constrained_substructures: those inside a
\* structure of the parent type, with the parent's id as structure_id.
FilteredSubstructures(shard, f) ==
  {[substructure_id |-> r.id, start |-> r.start, end |-> r.end, label |-> Label(r),
    structure_id |-> None] :
     r \in {x \in Range(shard.structures) : x.type = f.type}}
FilteredConstrainedSubstructures(shard, f) ==
  UNION {{[substructure_id |-> r.id, start |-> r.start, end |-> r.end, label |-> Label(r),
           structure_id |-> parent.id] :
            r \in {x \in Range(shard.structures) :
                     /\ x.type = f.type
                     /\ parent.start <= x.start
                     /\ x.end <= parent.end}} :
         parent \in {x \in Range(shard.structures) :
                       \E h \in f.hierarchy : x.type = h[1]}}

\* relevant_view and join_criterion of get_cooccurrence.
CoocView(shard, f, both) ==
  IF both THEN FilteredConstrainedSubstructures(shard, f) ELSE FilteredSubstructures(shard, f)
JoinCriterionContains(srv, trv, both) ==
  IF both THEN srv.structure_id = trv.structure_id
  ELSE srv.start <= trv.start /\ srv.end >= trv.end
JoinCriterion(srv, trv, both) ==
  IF both THEN srv.structure_id = trv.structure_id
  ELSE srv.start = trv.start /\ srv.end = trv.end

\* The query of get_cooccurrence on a shard: the joined rows counted per
\* (sources, targets).
CoocJoin(shard, source_filter, target_filter, both) ==
  {<<srv, trv>> \in CoocView(shard, source_filter, both) \X CoocView(shard, target_filter, both) :
     JoinCriterion(srv, trv, both)}
SetToSeq(S) ==
  CHOOSE seq \in [1..Cardinality(S) -> S] : \A i, j \in 1..Cardinality(S) : i # j => seq[i] # seq[j]
CoocQuery(shard, source_filter, target_filter, both) ==
  Bind(CoocJoin(shard, source_filter, target_filter, both), LAMBDA joined :
  Bind(SetToSeq({<<p[1].label, p[2].label>> : p \in joined}), LAMBDA groups :
    [k \in 1..Len(groups) |->
       <<groups[k],
         Cardinality({p \in joined : <<p[1].label, p[2].label>> = groups[k]})>>]))

\* get_cooccurrence up to the data frame: the frequencies of the shards
\* merged per (source, target); a frame without rows has no column to pivot.
Cooccurrence(ix, source_filter, target_filter) ==
  Bind(source_filter.hierarchy # {} /\ target_filter.hierarchy # {}, LAMBDA both :
  Bind(QueryShardsOn(Len(ix), 1,
                     <<[s \in 1..Len(ix) |->
                          CoocQuery(ix[s], source_filter, target_filter, both)]>>).value,
       LAMBDA rows :
         Bind(MergeCounts(<<>>, rows), LAMBDA frequencies :
           [err |-> IF rows = <<>> THEN "KeyError" ELSE "ok", value |-> frequencies])))

GetCooccurrenceCall ==
  /\ rcall = "None"
  /\ \E source_filter \in CoocFilters, target_filter \in CoocFilters :
       /\ rcall' = "get_cooccurrence"
       /\ rargs' = [source_filter |-> source_filter, target_filter |-> target_filter]
       /\ rresult' = Cooccurrence(corpus, source_filter, target_filter)
  /\ UNCHANGED <<corpus, rconnected, mvars, qvars, bvars, ivars, pvars, fvars, cvars, kvars>>

MaskCall ==
  /\ rcall = "None"
  /\ \E stype \in FilterTypes, clean_whitespace \in BOOLEAN :
       \E r \in {Mask(corpus, stype, clean_whitespace)} :
         /\ rcall' = "mask"
         /\ rargs' = [constraint |-> stype, clean_whitespace |-> clean_whitespace]
         /\ rresult' = r
  /\ UNCHANGED <<corpus, rconnected, mvars, qvars, bvars, ivars, pvars, fvars, cvars, kvars>>

FilterCall ==
  /\ rcall = "None"
  /\ \E stype \in FilterTypes :
       \E r \in {Filter(corpus, stype)} :
         /\ rcall' = "filter"
         /\ rargs' = [constraint |-> stype]
         /\ rresult' = r
  /\ UNCHANGED <<corpus, rconnected, mvars, qvars, bvars, ivars, pvars, fvars, cvars, kvars>>

NextRead ==
  \/ ExportRangesCall
  \/ ExportStructuresCall
  \/ MaskCall
  \/ FilterCall
  \/ GetSizeCall
  \/ GetLiteralCountsCall
  \/ GetStructureCountsCall
  \/ GetCooccurrenceCall

InitReadOnly ==
  /\ InitManager /\ InitQueryIdle /\ InitBatcherIdle /\ InitIngestIdle /\ InitParserIdle
  /\ InitFilterIdle /\ InitRead /\ InitConstraintsIdle /\ InitPoolIdle
SpecRead == InitReadOnly /\ [][NextRead]_vars

\* The values of a set of Literal rows in offset order, joined.
TextOf(rowset) ==
  Concat([k \in 1..Cardinality(rowset) |->
            SortSeq(SeqOf(rowset), LAMBDA a, b : a.start < b.start)[k].value])
\* The Literals of a shard inside a range, and outside it.
LiteralsInside(shard, rstart, rend) ==
  {l \in Range(shard.literals) : rstart <= l.start /\ l.end <= rend}
LiteralsOutside(shard, rstart, rend) ==
  {l \in Range(shard.literals) : l.end <= rstart \/ rend <= l.start}

\* C21: export_ranges returns, range by range, the joined values of exactly
\* the Literals of the range's shard inside the range, or outside it when
\* invert is set (a range without such a Literal contributes no text).
C21_ExportRangesInsideOrOutside ==
  rcall = "export_ranges" =>
    rresult.value =
      SelectSeq([k \in 1..Len(rargs.ranges) |->
                   TextOf(IF rargs.invert
                          THEN LiteralsOutside(corpus[rargs.ranges[k][1] + 1],
                                               rargs.ranges[k][3], rargs.ranges[k][4])
                          ELSE LiteralsInside(corpus[rargs.ranges[k][1] + 1],
                                              rargs.ranges[k][3], rargs.ranges[k][4]))],
                LAMBDA text : text # <<>>)

\* The Literal rows structure_literals maps to a structure of a shard.
LiteralsMapped(shard, sid) ==
  {l \in Range(shard.literals) : <<sid, l.id>> \in Range(shard.structure_literals)}

\* C22: export_structures yields one text per requested (shard, structure id)
\* in the order of the request, each the values of the Literals mapped to the
\* structure joined in offset order.
C22_ExportStructuresInOffsetOrder ==
  rcall = "export_structures" =>
    /\ rresult.err = "ok"
    /\ rresult.value =
         [k \in 1..Len(rargs.structures) |->
            TextOf(LiteralsMapped(corpus[rargs.structures[k][1] + 1], rargs.structures[k][2]))]

\* The ids of the structures of a type in a shard, and the Literal rows of a
\* shard that belong to none of them.
IdsOfType(shard, stype) == {r.id : r \in {x \in Range(shard.structures) : x.type = stype}}
Unmatched(shard, stype) ==
  {l \in Range(shard.literals) :
     \A sid \in IdsOfType(shard, stype) : l \notin LiteralsMapped(shard, sid)}

\* C23: mask returns the text of the shards built from exactly the Literals
\* that belong to no structure the filter matches (runs of whitespace
\* collapsed when clean_whitespace is set).
C23_MaskRemovesMatchedLiterals ==
  rcall = "mask" =>
    /\ rresult.err = "ok"
    /\ rresult.value =
         (IF rargs.clean_whitespace
          THEN CleanWhitespace(Concat([s \in 1..Len(corpus) |->
                                         TextOf(Unmatched(corpus[s], rargs.constraint))]))
          ELSE Concat([s \in 1..Len(corpus) |-> TextOf(Unmatched(corpus[s], rargs.constraint))]))

\* The rows of the terminal view of a filter over the shards, in shard order.
ViewRows(stype) ==
  Concat([s \in 1..Len(corpus) |->
            [k \in 1..Len(TerminalViewRows(corpus[s], stype)) |->
               <<s - 1, TerminalViewRows(corpus[s], stype)[k][1],
                 TerminalViewRows(corpus[s], stype)[k][2],
                 TerminalViewRows(corpus[s], stype)[k][3]>>]])

\* C24: filter yields one row per row of the terminal view of its filter,
\* with the same (shard, id, start, end) and in the same order.
C24_FilterRowsAreViewRows ==
  rcall = "filter" =>
    /\ rresult.err = "ok"
    /\ [k \in 1..Len(rresult.value) |->
          <<rresult.value[k][1], rresult.value[k][2], rresult.value[k][3],
            rresult.value[k][4]>>] = ViewRows(rargs.constraint)
C24_Witness ==
  /\ rcall = "filter"
  /\ rargs.constraint = "token"
  /\ Len(corpus) = 2
  /\ Len(rresult.value) = 4
  /\ rresult.value[4][1] = 1

\* The number of rows of a shard's structure table whose fields make a key.
RowsWithKey(shard, key) ==
  Cardinality({r \in Range(StructureTable(shard, rargs.types, rargs.literals)) :
                 StructureKey(StructureFields(shard, r, rargs.values, rargs.literals)) = key})

\* C25: get_size is the sum of the row counts of the shards' tables, and
\* get_literal_counts and get_structure_counts hold for every key that occurs
\* in some shard the sum over all shards of the key's count in the shard.
C25_CountsSumOverShards ==
  /\ rcall = "get_size" =>
       rresult.value =
         <<SumSeq([s \in 1..Len(corpus) |-> Len(corpus[s].literals)]),
           SumSeq([s \in 1..Len(corpus) |-> Len(corpus[s].structures)]),
           SumSeq([s \in 1..Len(corpus) |-> Len(corpus[s].hierarchical_structures)])>>
  /\ rcall = "get_literal_counts" =>
       /\ DOMAIN rresult.value =
            UNION {{l.value : l \in Range(corpus[s].literals)} : s \in 1..Len(corpus)}
       /\ \A key \in DOMAIN rresult.value :
            rresult.value[key] =
              SumSeq([s \in 1..Len(corpus) |->
                        Cardinality({l \in Range(corpus[s].literals) : l.value = key})])
  /\ rcall = "get_structure_counts" =>
       /\ DOMAIN rresult.value =
            UNION {{StructureKey(StructureFields(corpus[s], r, rargs.values, rargs.literals)) :
                      r \in Range(StructureTable(corpus[s], rargs.types, rargs.literals))} :
                   s \in 1..Len(corpus)}
       /\ \A key \in DOMAIN rresult.value :
            rresult.value[key] = SumSeq([s \in 1..Len(corpus) |-> RowsWithKey(corpus[s], key)])
C25_Witness ==
  /\ rcall = "get_literal_counts"
  /\ Len(corpus) = 2
  /\ <<"c">> \in DOMAIN rresult.value
  /\ \A l \in Range(corpus[1].literals) : l.value # <<"c">>
  /\ rresult.value[<<Space>>] = 5
  /\ rresult.value[<<"a", "b">>] = 2

\* The pairs of a source and a target structure of a shard that count for the
\* labels (s, t): with a hierarchy on both filters those inside one parent,
\* otherwise those with equal offsets.
PairedIn(shard, source_filter, target_filter, s, t) ==
  IF source_filter.hierarchy # {} /\ target_filter.hierarchy # {}
  THEN {<<a, b>> \in FilteredConstrainedSubstructures(shard, source_filter)
                        \X FilteredConstrainedSubstructures(shard, target_filter) :
          a.label = s /\ b.label = t /\ a.structure_id = b.structure_id}
  ELSE {<<a, b>> \in FilteredSubstructures(shard, source_filter)
                        \X FilteredSubstructures(shard, target_filter) :
          a.label = s /\ b.label = t /\ a.start = b.start /\ a.end = b.end}

\* C26: the frequency get_cooccurrence(A, B) has for (s, t) is the one
\* get_cooccurrence(B, A) has for (t, s), and it is the number of pairs with
\* one parent when both filters have a hierarchy, with equal offsets otherwise.
C26_CooccurrenceSymmetric ==
  rcall = "get_cooccurrence" =>
    \E swapped \in {Cooccurrence(corpus, rargs.target_filter, rargs.source_filter)} :
      /\ swapped.err = rresult.err
      /\ DOMAIN swapped.value = {<<key[2], key[1]>> : key \in DOMAIN rresult.value}
      /\ \A key \in DOMAIN rresult.value :
           /\ rresult.value[key] = swapped.value[<<key[2], key[1]>>]
           /\ rresult.value[key] =
                SumSeq([n \in 1..Len(corpus) |->
                          Cardinality(PairedIn(corpus[n], rargs.source_filter,
                                               rargs.target_filter, key[1], key[2]))])
C26_Witness ==
  /\ rcall = "get_cooccurrence"
  /\ Len(corpus) = 2
  /\ rargs.source_filter = [type |-> "dependency", hierarchy |-> {}]
  /\ rargs.target_filter = [type |-> "deprel", hierarchy |-> {}]
  /\ rresult.err = "ok"
  /\ <<"dependency=dep", "deprel=dep">> \in DOMAIN rresult.value
  /\ rresult.value[<<"dependency=root", "deprel=root">>] = 1

\* ------------------------------------------------- scripts/import/ud.py
\* The number of characters the parser's cursor advances over one sentence.
SentenceLength == 3

\* The carryover fields parse_sentence finds in the metadata of a sentence
\* placed at cur: the value of "newdoc id" is the id, that of "newdoc" None.
SentenceCarryover(meta, cur) ==
  {<<GetCarryoverField(f), <<IF f = "newdoc id" THEN "id" ELSE "None", cur>>>> :
     f \in {x \in meta : GetCarryoverField(x) # "None"}}

\* The loop of parse over the sentences of a batch, from sentence k on: the
\* carryover of every sentence goes through parse_carryover and the cursor
\* advances by the sentence, whose Structure spans [cursor, cursor +
\* SentenceLength).
RECURSIVE ParseSentences(_, _, _)
ParseSentences(b, k, st0) ==
  Bind(st0, LAMBDA st :
  IF k > Len(b) THEN st
  ELSE Bind(ParseCarryover(st.carryover, SentenceCarryover(sentences[b[k] + 1], st.cursor),
                           st.literals, <<>>, st.sentences,
                           <<Structure(st.cursor, st.cursor + SentenceLength, "None",
                                       "sentence", <<>>)>>,
                           st.cursor),
            LAMBDA c :
       ParseSentences(b, k + 1,
         [carryover |-> c.carryover, literals |-> c.literals, sentences |-> c.sentences,
          structures |-> st.structures \o c.structures,
          hierarchies |-> st.hierarchies \o c.hierarchies,
          cursor |-> st.cursor + SentenceLength])))

\* conllu_parser.parse(batch) with its cursor at 0 and an empty carryover: the
\* batch cursor, for every sentence the row <<sentence, start of its first
\* Literal>>, and the Structures and edges of parse_carryover, the last ones
\* flushed with the 'end' carryover.
ParseBatch(b) ==
  Bind(ParseSentences(b, 1,
         [carryover |-> {}, literals |-> {}, sentences |-> {},
          structures |-> <<>>, hierarchies |-> <<>>, cursor |-> 0]), LAMBDA st :
  Bind(ParseCarryover(st.carryover,
                      {<<"document", <<"end", -1>>>>, <<"paragraph", <<"end", -1>>>>},
                      st.literals, <<>>, st.sentences, <<>>, st.cursor), LAMBDA c :
  [cursor |-> st.cursor,
   literals |-> [k \in 1..Len(b) |-> <<b[k], (k - 1) * SentenceLength>>],
   structures |-> st.structures \o c.structures,
   hierarchies |-> st.hierarchies \o c.hierarchies]))

\* batch_structure.start += cursor_idx, .end += cursor_idx: a Structure moved
\* to the loop's cursor.  An edge holds the same objects, so its Structures
\* move with them.
Moved(s, by) == [s EXCEPT !.start = @ + by, !.end = @ + by]
MovedEdge(h, by) == <<Moved(h[1], by), Moved(h[2], by)>>

\* The state of one round of the while loop, as a record.
Loop ==
  [g |-> [batch |-> batch, in_boundary |-> in_boundary, batches |-> batches],
   sidx |-> sentence_idx, pc |-> bpc, it |-> batch_iterator,
   buffered |-> buffered, batch_idx |-> batch_idx, jobs |-> parsing_jobs,
   results |-> batch_results, output_idx |-> output_idx, cursor_idx |-> cursor_idx,
   num |-> num_indexed_sentences, ishards |-> ishards, iconnected |-> iconnected,
   stored |-> stored, acc |-> <<>>,
   indexed |-> indexed, structures |-> <<>>, hierarchies |-> <<>>]

\* next(batch_iterator): the generator runs to its next yield and the batch
\* goes to the list; once the generator has ended StopIteration is caught.
RECURSIVE NextBatch(_)
NextBatch(L) ==
  IF L.pc = "done" THEN [L EXCEPT !.it = "None"]
  ELSE IF L.sidx = Len(sentences)
  THEN [L EXCEPT !.pc = "done",
                 !.g.batches = Append(@, L.g.batch),
                 !.buffered = Append(@, <<L.batch_idx, L.g.batch>>),
                 !.batch_idx = @ + 1]
  ELSE LET g2 == BatcherRound(L.g, L.sidx, sentences[L.sidx + 1],
                              bstart, bend, batch_size)
       IN  IF Len(g2.batches) > Len(L.g.batches)
           THEN [L EXCEPT !.g = g2, !.sidx = @ + 1,
                          !.buffered = Append(@, <<L.batch_idx, g2.batches[Len(g2.batches)]>>),
                          !.batch_idx = @ + 1]
           ELSE Bind([L EXCEPT !.g = g2, !.sidx = @ + 1], LAMBDA x : NextBatch(x))

\* buffer future batches: up to 2 * threads of them wait in the list.
RECURSIVE Buffer(_)
Buffer(L) ==
  IF L.it # "None" /\ Len(L.buffered) < threads * 2
  THEN Bind(NextBatch(L), LAMBDA x : Buffer(x))
  ELSE L

\* submit every buffered batch, whatever the number of jobs.
RECURSIVE SubmitAll(_)
SubmitAll(L) ==
  IF L.buffered # <<>>
  THEN Bind([L EXCEPT
              !.jobs = Append(@, [idx |-> Head(L.buffered)[1],
                                  batch |-> Head(L.buffered)[2], ready |-> FALSE]),
              !.buffered = Tail(@)],
            LAMBDA x : SubmitAll(x))
  ELSE L

\* submit new parsing jobs up to the pool size.
RECURSIVE Submit(_)
Submit(L) ==
  IF L.buffered # <<>> /\ Len(L.jobs) < threads
  THEN Bind([L EXCEPT
              !.jobs = Append(@, [idx |-> Head(L.buffered)[1],
                                  batch |-> Head(L.buffered)[2], ready |-> FALSE]),
              !.buffered = Tail(@)],
            LAMBDA x : Submit(x))
  ELSE L

\* the jobs that are ready leave the pool and their results are dropped.
GatherNothing(L) ==
  [L EXCEPT !.jobs = SelectSeq(@, LAMBDA j : ~j.ready)]

\* gather completed jobs: the result of every job that is ready.
Gather(L) ==
  [L EXCEPT
     !.results = @ \cup {[idx |-> L.jobs[i].idx, sz |-> Len(L.jobs[i].batch),
                          res |-> ParseBatch(L.jobs[i].batch)] :
                         i \in {j \in 1..Len(L.jobs) : L.jobs[j].ready}},
     !.jobs = SelectSeq(@, LAMBDA j : ~j.ready)]

\* process the results in any order they are found in.
RECURSIVE AddResultsAnyOrder(_)
AddResultsAnyOrder(L) ==
  IF L.results # {}
  THEN Bind(CHOOSE x \in L.results : \A y \in L.results : y.idx <= x.idx, LAMBDA r :
         Bind([L EXCEPT
                 !.results = @ \ {r},
                 !.acc = @ \o [k \in 1..Len(r.res.literals) |->
                                 <<r.res.literals[k][1], r.res.literals[k][2] + L.cursor_idx>>],
                 !.structures = @ \o [k \in 1..Len(r.res.structures) |->
                                         Moved(r.res.structures[k], L.cursor_idx)],
                 !.hierarchies = @ \o [k \in 1..Len(r.res.hierarchies) |->
                                          MovedEdge(r.res.hierarchies[k], L.cursor_idx)],
                 !.cursor_idx = @ + r.res.cursor,
                 !.num = @ + r.sz,
                 !.output_idx = @ + 1],
              LAMBDA x : AddResultsAnyOrder(x)))
  ELSE L

\* process results in target output order: the offsets of a batch are moved
\* by the loop's cursor, which then advances by the batch cursor.
RECURSIVE AddResults(_)
AddResults(L) ==
  IF \E r \in L.results : r.idx = L.output_idx
  THEN Bind(CHOOSE x \in L.results : x.idx = L.output_idx, LAMBDA r :
         Bind([L EXCEPT
                 !.results = @ \ {r},
                 !.acc = @ \o [k \in 1..Len(r.res.literals) |->
                                 <<r.res.literals[k][1], r.res.literals[k][2] + L.cursor_idx>>],
                 !.structures = @ \o [k \in 1..Len(r.res.structures) |->
                                         Moved(r.res.structures[k], L.cursor_idx)],
                 !.hierarchies = @ \o [k \in 1..Len(r.res.hierarchies) |->
                                          MovedEdge(r.res.hierarchies[k], L.cursor_idx)],
                 !.cursor_idx = @ + r.res.cursor,
                 !.num = @ + r.sz,
                 !.output_idx = @ + 1],
              LAMBDA x : AddResults(x)))
  ELSE L

\* The shard test of the loop: a new shard when the sentence count divided by
\* shard_size exceeds the number of shards.
NewShard(num, size, n) == (num \div size) > n

\* The database step: add_shard when the test says so, then di.add of all that
\* was gathered, which writes through the open connection.
DbStep(L) ==
  IF L.acc = <<>> THEN L
  ELSE LET L1 == IF NewShard(L.num, shard_size, L.ishards)
                 THEN [L EXCEPT !.ishards = @ + 1, !.iconnected = L.ishards,
                                !.stored = Append(@, <<>>)]
                 ELSE L
       IN  [L1 EXCEPT !.stored[L1.iconnected + 1] = @ \o L.acc,
                      !.indexed.structures = @ \o L.structures,
                      !.indexed.hierarchies = @ \o L.hierarchies]

\* A fresh index after initialize(), entered with connect() on shard 0; the
\* batcher reads the whole file.
InitIngest ==
  /\ sentences \in Streams
  /\ bstart = 0
  /\ bend = MaxSentences
  /\ batch_size \in 1..MaxBatchSize
  /\ sentence_idx = 0
  /\ batch = <<>>
  /\ in_boundary = FALSE
  /\ batches = <<>>
  /\ bpc = "running"
  /\ threads \in 1..MaxThreads
  /\ shard_size \in 1..MaxShardSize
  /\ batch_iterator = "open"
  /\ buffered = <<>>
  /\ batch_idx = 0
  /\ parsing_jobs = <<>>
  /\ batch_results = {}
  /\ output_idx = 0
  /\ cursor_idx = 0
  /\ num_indexed_sentences = 0
  /\ ishards = 1
  /\ iconnected = 0
  /\ stored = <<<<>>>>
  /\ indexed = [structures |-> <<>>, hierarchies |-> <<>>]

\* A pool worker ends conllu_parser.parse on its batch.
WorkerParse ==
  /\ \E i \in 1..Len(parsing_jobs) :
       /\ ~parsing_jobs[i].ready
       /\ parsing_jobs' = [parsing_jobs EXCEPT ![i].ready = TRUE]
  /\ UNCHANGED <<threads, shard_size, batch_iterator, buffered, batch_idx,
                 batch_results, output_idx, cursor_idx, num_indexed_sentences,
                 ishards, iconnected, stored, indexed, bvars, mvars, qvars, pvars, fvars, rvars, cvars, kvars>>

\* One round of the while loop.
LoopRound ==
  /\ num_indexed_sentences < Len(sentences)
  /\ \E L1 \in {Buffer(Loop)} : \E L2 \in {Gather(Submit(L1))} :
     \E L \in {DbStep(AddResults(L2))} :
     /\ batch' = L.g.batch
     /\ in_boundary' = L.g.in_boundary
     /\ batches' = L.g.batches
     /\ sentence_idx' = L.sidx
     /\ bpc' = L.pc
     /\ batch_iterator' = L.it
     /\ buffered' = L.buffered
     /\ batch_idx' = L.batch_idx
     /\ parsing_jobs' = L.jobs
     /\ batch_results' = L.results
     /\ output_idx' = L.output_idx
     /\ cursor_idx' = L.cursor_idx
     /\ num_indexed_sentences' = L.num
     /\ ishards' = L.ishards
     /\ iconnected' = L.iconnected
     /\ stored' = L.stored
     /\ indexed' = L.indexed
  /\ UNCHANGED <<sentences, bstart, bend, batch_size, threads, shard_size, mvars, qvars, pvars, fvars, rvars, cvars, kvars>>

NextIngest == WorkerParse \/ LoopRound

\* The initial states of SpecIngest: the other parts are idle.
InitIngestOnly ==
  /\ InitManager /\ InitQueryIdle /\ InitIngest /\ InitParserIdle /\ InitFilterIdle /\ InitReadIdle /\ InitConstraintsIdle /\ InitPoolIdle
SpecIngest == InitIngestOnly /\ [][NextIngest]_vars

\* The scheduling of the import: the main process runs round after round of
\* the while loop for as long as it changes anything, and every job the pool
\* was given ends (no parse raises, no worker dies).
SpecIngestFair ==
  InitIngestOnly /\ [][NextIngest]_vars /\ WF_vars(LoopRound) /\ WF_vars(WorkerParse)

\* C12: offsets are shard-local: in every shard the import has written to,
\* the first Literal starts at offset 0.
C12_OffsetsShardLocal ==
  \A s \in 1..Len(stored) : stored[s] # <<>> => stored[s][1][2] = 0

\* The sentence that opens the document of sentence i.
RECURSIVE DocumentOf(_)
DocumentOf(i) ==
  IF i = 0 \/ GetBoundary(sentences[i + 1]) THEN i ELSE DocumentOf(i - 1)

\* C19: after the import no document has sentences in two shards.
C19_DocumentInOneShard ==
  DocumentStream =>
    \A s1, s2 \in 1..Len(stored) :
      \A i \in 1..Len(stored[s1]), j \in 1..Len(stored[s2]) :
        DocumentOf(stored[s1][i][1]) = DocumentOf(stored[s2][j][1]) => s1 = s2

\* ------------------------------------------------- the import loop, claims
\* C31: in a round of the loop that writes, a shard is opened exactly when the
\* count of indexed sentences divided by shard_size exceeds the number of
\* shards; at most one shard is opened, before the rows are added, and the
\* rows of the round go into it.
C31_ShardOpenedWhenQuotientExceeds ==
  [][stored' # stored =>
       /\ ishards' \in {ishards, ishards + 1}
       /\ (ishards' = ishards + 1) <=> (num_indexed_sentences' > ishards * shard_size)
       /\ ishards' = ishards + 1 =>
            /\ Len(stored') = ishards'
            /\ \A s \in 1..ishards : stored'[s] = stored[s]
            /\ stored'[ishards'] # <<>>]_vars

\* The sentences written to the index, in the order of the shards and of
\* their rows.
WrittenSentences ==
  Concat([s \in 1..Len(stored) |-> [k \in 1..Len(stored[s]) |-> stored[s][k][1]]])

\* C35: whatever the order in which the parsing jobs end, what the index holds
\* is the batches 0 .. output_idx - 1 in the order of their index, each once:
\* no batch is written before the batches of a smaller index.
C35_BatchesWrittenInOrder ==
  /\ output_idx <= Len(batches)
  /\ WrittenSentences = Concat(SubSeq(batches, 1, output_idx))
C35_Witness ==
  /\ stored[1] # <<>>
  /\ \E r \in batch_results : r.idx > output_idx
  /\ \E i \in 1..Len(parsing_jobs) : parsing_jobs[i].idx = output_idx

\* The while loop has ended: num_indexed_sentences has reached get_size(file),
\* the number of sentences of the file.
Terminated == ~(num_indexed_sentences < Len(sentences))

\* The import has ended on a file read as a whole.
Ingested == Terminated /\ sentences # <<>>
\* The document Structures of the index, and the edges from a document to
\* the Structure of sentence i, which starts at i * SentenceLength.
Documents == SelectSeq(indexed.structures, LAMBDA s : s.stype = "document")
DocumentEdges(i) ==
  {k \in 1..Len(indexed.hierarchies) :
     /\ indexed.hierarchies[k][1].stype = "document"
     /\ indexed.hierarchies[k][2].stype = "sentence"
     /\ indexed.hierarchies[k][2].start = i * SentenceLength}

\* C36: after the import of a file whose documents all start with a newdoc
\* marker the index has one document Structure per marker and every sentence
\* is under exactly one document, for every batch_size and every threads.
C36_OneDocumentPerMarker ==
  (Ingested /\ DocumentStream) =>
    /\ Len(Documents) = Cardinality({i \in 1..Len(sentences) : GetBoundary(sentences[i])})
    /\ \A i \in 0..(Len(sentences) - 1) : Cardinality(DocumentEdges(i)) = 1

\* C37: when every job the pool is given ends without an error, the loop ends;
\* once it has ended every batch the batcher yields has been written, no job
\* or result is left over, and the indexed count is the number of sentences.
C37_LoopTerminatesComplete ==
  /\ <>Terminated
  /\ [](Terminated =>
         /\ num_indexed_sentences = Len(sentences)
         /\ WrittenSentences = Concat(batches)
         /\ WrittenSentences = [k \in 1..Len(sentences) |-> k - 1]
         /\ buffered = <<>> /\ parsing_jobs = <<>> /\ batch_results = {})
C37_Witness ==
  /\ Terminated
  /\ Len(batches) >= 3
  /\ Len(stored) >= 2
  /\ output_idx = Len(batches)

\* C38: at every point of a round of the loop (before it, after the batches
\* were buffered, after the jobs were submitted) at most threads jobs are in
\* the pool and at most 2 * threads batches wait in the list.
C38_JobsAndBufferBounded ==
  \A L \in {Loop, Buffer(Loop), Submit(Buffer(Loop))} :
    /\ Len(L.jobs) <= threads
    /\ Len(L.buffered) <= 2 * threads
C38_Witness ==
  /\ Len(parsing_jobs) = threads
  /\ Len(buffered) = 2 * threads
  /\ threads = 1

\* ------------------------------------------------------------ constraints
\* A Condition(stype, values, literal, min_count): values is <<>> for None and
\* <<the set of the values>> otherwise; literal is "None" or a surface form.
ConditionRecords ==
  [type : {"upos"},
   values : {<<>>, <<{"NOUN"}>>, <<{"NOUN", "ADJ"}>>},
   literal : {"None", "cat"},
   min_count : 0..MaxMinCount]
\* A Criterion(conditions, operation): more than one condition needs an
\* operation.
CriterionRecords ==
  {c \in [conditions : UNION {[1..n -> ConditionRecords] : n \in 1..MaxConditions},
          operation : {"", "AND", "OR"}] :
     Len(c.conditions) > 1 => c.operation # ""}

\* The rows a fragment is evaluated on: a structure with the text of its
\* Literals; the value "None" is NULL.
StructureRows == [type : {"upos", "token"}, value : {"NOUN", "ADJ", "None"},
                  literal : {"cat", "dog"}]

\* A rendered fragment of one Condition is the conjunction of its comparisons
\* column IN (values); a comparison with NULL is not true.
Comparison(column, among) == [column |-> column, among |-> among]
Holds(comparisons, row) ==
  \A k \in 1..Len(comparisons) : row[comparisons[k].column] \in comparisons[k].among

\* Condition.to_sql
ConditionToSql(c) ==
  <<Comparison("type", {c.type})>>
    \o (IF c.values # <<>> THEN <<Comparison("value", c.values[1])>> ELSE <<>>)
    \o (IF c.literal # "None" THEN <<Comparison("literal", {c.literal})>> ELSE <<>>)

\* Condition.to_prefilter_sql: '' (here <<>>) without a literal when only the
\* literals are asked for; the join over self.values raises for None.
ConditionToPrefilterSql(c, only_literals) ==
  IF only_literals /\ c.literal = "None" THEN [err |-> "ok", sql |-> <<>>]
  ELSE IF c.values = <<>> THEN [err |-> "TypeError", sql |-> <<>>]
  ELSE [err |-> "ok",
        sql |-> <<Comparison("type", {c.type}), Comparison("value", c.values[1])>>]

\* Condition.to_grouped_sql: for every value the test SUM(CASE WHEN type,
\* value and literal match THEN 1 ELSE 0 END) > min_count, joined with AND;
\* the loop over self.values raises for None.
CountCondition(c, v) ==
  [when |-> <<Comparison("type", {c.type}), Comparison("value", {v})>>
              \o (IF c.literal # "None" THEN <<Comparison("literal", {c.literal})>> ELSE <<>>),
   more_than |-> c.min_count]
ConditionToGroupedSql(c) ==
  IF c.values = <<>> THEN [err |-> "TypeError", sql |-> {}]
  ELSE [err |-> "ok", sql |-> {CountCondition(c, v) : v \in c.values[1]}]

\* Criterion.to_sql: the fragments in parentheses joined by the operation.
CriterionToSql(c) ==
  [operation |-> c.operation,
   terms |-> [k \in 1..Len(c.conditions) |-> ConditionToSql(c.conditions[k])]]

\* Criterion.to_prefilter_sql: the non-empty fragments joined by OR.
CriterionToPrefilterSql(c, only_literals) ==
  IF \E k \in 1..Len(c.conditions) :
       ConditionToPrefilterSql(c.conditions[k], only_literals).err # "ok"
  THEN [err |-> "TypeError", sql |-> [operation |-> "OR", terms |-> <<>>]]
  ELSE [err |-> "ok",
        sql |-> [operation |-> "OR",
                 terms |-> SelectSeq([k \in 1..Len(c.conditions) |->
                                        ConditionToPrefilterSql(c.conditions[k], only_literals).sql],
                                     LAMBDA s : s # <<>>)]]

\* Criterion.to_grouped_sql: the grouped fragments joined by the operation.
CriterionToGroupedSql(c) ==
  IF \E k \in 1..Len(c.conditions) : ConditionToGroupedSql(c.conditions[k]).err # "ok"
  THEN [err |-> "TypeError", sql |-> [operation |-> c.operation, terms |-> <<>>]]
  ELSE [err |-> "ok",
        sql |-> [operation |-> c.operation,
                 terms |-> [k \in 1..Len(c.conditions) |->
                              ConditionToGroupedSql(c.conditions[k]).sql]]]

\* A row satisfies a joined fragment: every term for AND, some term for OR,
\* the one term without an operation.
Satisfies(row, sql) ==
  IF sql.operation = "OR" THEN \E k \in 1..Len(sql.terms) : Holds(sql.terms[k], row)
  ELSE \A k \in 1..Len(sql.terms) : Holds(sql.terms[k], row)

\* The substructures of a parent, and the HAVING test on them.
ChildLists == UNION {[1..n -> StructureRows] : n \in 0..MaxChildren}
Matches(children, comparisons) ==
  Cardinality({i \in 1..Len(children) : Holds(comparisons, children[i])})
HavingTerm(children, term) ==
  \A count \in term : Matches(children, count.when) > count.more_than
Having(children, sql) ==
  IF sql.operation = "OR" THEN \E k \in 1..Len(sql.terms) : HavingTerm(children, sql.terms[k])
  ELSE \A k \in 1..Len(sql.terms) : HavingTerm(children, sql.terms[k])

InitConstraints ==
  /\ crit \in CriterionRecords
  /\ csql = <<>>
  /\ cprefilter = <<>>
  /\ cgrouped = <<>>

ToSqlCall ==
  /\ csql = <<>>
  /\ csql' = <<CriterionToSql(crit)>>
  /\ UNCHANGED <<crit, cprefilter, cgrouped, mvars, qvars, bvars, ivars, pvars, fvars, rvars, kvars>>

ToPrefilterSqlCall ==
  /\ cprefilter = <<>>
  /\ \E only_literals \in BOOLEAN :
       cprefilter' = <<[only_literals |-> only_literals,
                        out |-> CriterionToPrefilterSql(crit, only_literals)]>>
  /\ UNCHANGED <<crit, csql, cgrouped, mvars, qvars, bvars, ivars, pvars, fvars, rvars, kvars>>

ToGroupedSqlCall ==
  /\ cgrouped = <<>>
  /\ cgrouped' = <<CriterionToGroupedSql(crit)>>
  /\ UNCHANGED <<crit, csql, cprefilter, mvars, qvars, bvars, ivars, pvars, fvars, rvars, kvars>>

NextConstraints ==
  \/ ToSqlCall
  \/ ToPrefilterSqlCall
  \/ ToGroupedSqlCall

InitConstraintsOnly ==
  /\ InitManager /\ InitQueryIdle /\ InitBatcherIdle /\ InitIngestIdle /\ InitParserIdle
  /\ InitFilterIdle /\ InitReadIdle /\ InitConstraints /\ InitPoolIdle
SpecConstraints == InitConstraintsOnly /\ [][NextConstraints]_vars

\* C32: whatever the Criterion, its prefilter fragment is rendered and every
\* row that satisfies to_sql satisfies to_prefilter_sql.
C32_PrefilterIsSuperset ==
  (csql # <<>> /\ cprefilter # <<>> /\ ~cprefilter[1].only_literals) =>
    /\ cprefilter[1].out.err = "ok"
    /\ \A row \in StructureRows :
         Satisfies(row, csql[1]) => Satisfies(row, cprefilter[1].out.sql)

\* C33: a Condition with values and min_count = k >= 1, alone in its
\* Criterion, is satisfied by exactly the parents that hold, for every value,
\* at least k substructures matching type, value and literal.
C33_MinCountIsAtLeast ==
  (/\ cgrouped # <<>>
   /\ Len(crit.conditions) = 1
   /\ crit.conditions[1].values # <<>>
   /\ crit.conditions[1].min_count >= 1) =>
    /\ cgrouped[1].err = "ok"
    /\ \A children \in ChildLists :
         Having(children, cgrouped[1].sql) <=>
           \A v \in crit.conditions[1].values[1] :
             Cardinality({i \in 1..Len(children) :
                            /\ children[i].type = crit.conditions[1].type
                            /\ children[i].value = v
                            /\ crit.conditions[1].literal \in {"None", children[i].literal}})
               >= crit.conditions[1].min_count

\* -------------------------------------------------- the pool of query_shards
\* num_cpus and chunksize of query_shards: half of the CPUs, and the number
\* of shards over the number of processes, both floored and at least 1.
NumCpus(cpus) == Max(1, cpus \div 2)
Chunksize(n, processes) == Max(1, n \div processes)

InitPool ==
  /\ cpu_count \in 1..MaxCpus
  /\ pool_shards \in 0..MaxPoolShards
  /\ num_cpus = None
  /\ chunksize = None

\* The first two statements of query_shards.
SizePool ==
  /\ num_cpus = None
  /\ num_cpus' = NumCpus(cpu_count)
  /\ chunksize' = Chunksize(pool_shards, NumCpus(cpu_count))
  /\ UNCHANGED <<cpu_count, pool_shards, mvars, qvars, bvars, ivars, pvars, fvars, rvars, cvars>>

NextPool == SizePool

InitPoolOnly ==
  /\ InitManager /\ InitQueryIdle /\ InitBatcherIdle /\ InitIngestIdle /\ InitParserIdle
  /\ InitFilterIdle /\ InitReadIdle /\ InitConstraintsIdle /\ InitPool
SpecPool == InitPoolOnly /\ [][NextPool]_vars

\* C34: for an index with a shard the pool has max(1, cpu_count / 2)
\* processes, the half rounded down, and the chunk size is the number of shards
\* over the number of processes, rounded up.
C34_ChunksizeIsCeiling ==
  (num_cpus # None /\ pool_shards >= 1) =>
    /\ num_cpus = (IF cpu_count \div 2 >= 1 THEN cpu_count \div 2 ELSE 1)
    /\ chunksize * num_cpus >= pool_shards
    /\ (chunksize - 1) * num_cpus < pool_shards

====
